---- MODULE Spec2Model ----
(***************************************************************************)
(* Model of the BEAT-SHEETS UI worker (src/beat-sheet/src/index.js with   *)
(* its ui.js / utils.js / schema.sql companions in src/unnamed/part_001). *)
(*                                                                         *)
(* Conventions.                                                            *)
(*  - A text is a sequence of strings.  Text that comes from data (a       *)
(*    column value, a header value, a request path) is one character per  *)
(*    element; a literal chunk of a template in the source is one element *)
(*    holding the whole chunk.                                             *)
(*    A markup tag inside a column value is one element as well.           *)
(*  - A JavaScript value is a record [t, s, n]: t is "null", "str" or     *)
(*    "num", s the text of a string and n the value of a number.          *)
(*  - The Row Source is the pair of relations (acts, beats).  A query     *)
(*    either returns rows or raises; which query of a request raises is   *)
(*    an input of the request (0: none).                                   *)
(***************************************************************************)
EXTENDS Integers, Sequences, FiniteSets, TLC

\* ---------------------------------------------------------------- bounds
MaxActNo == 2
MaxBeatNo == 2
\* rows of the beats relation when the report routes are explored
MaxRows == 2
\* rows of the beats relation when every route is explored
MaxPageRows == 1
\* rows of the beats relation when the column values are explored
MaxFieldRows == 2
\* largest maxRequests and windowMs a RateLimiter is constructed with
MaxLimit == 2
MaxWindow == 2
\* last value of Date.now() and number of calls made to a RateLimiter
MaxTime == 3
MaxCalls == 4

\* ------------------------------------------------------------------ clock
\* what the first and the second reading of the clock (new Date()) by the
\* next request return
VARIABLES clock

\* ------------------------------------------------------- JavaScript values
Null == [t |-> "null", s |-> <<>>, n |-> 0]
Str(s) == [t |-> "str", s |-> s, n |-> 0]
Num(n) == [t |-> "num", s |-> <<>>, n |-> n]

\* JavaScript truthiness: null, '' and 0 are falsy
Truthy(v) == \/ v.t = "str" /\ v.s # <<>>
             \/ v.t = "num" /\ v.n # 0

DigitChars == <<"0", "1", "2", "3", "4", "5", "6", "7", "8", "9">>

IsDigit(c) == \E i \in 1..10 : DigitChars[i] = c

DigitValue(c) == (CHOOSE i \in 1..10 : DigitChars[i] = c) - 1

\* template interpolation of a non-negative integer: its decimal text
RECURSIVE ToDec(_)
ToDec(n) == IF n < 10 THEN <<DigitChars[n + 1]>>
            ELSE ToDec(n \div 10) \o <<DigitChars[(n % 10) + 1]>>

\* parseInt of a text made of decimal digits only
RECURSIVE ParseInt(_)
ParseInt(d) == IF Len(d) = 0 THEN 0
               ELSE 10 * ParseInt(SubSeq(d, 1, Len(d) - 1)) + DigitValue(d[Len(d)])

\* template interpolation `${v}` of a JavaScript value
Interp(v) == CASE v.t = "null" -> <<"null">>
               [] v.t = "str" -> v.s
               [] v.t = "num" -> ToDec(v.n)

\* `${v || fallback}`
OrElse(v, fallback) == IF Truthy(v) THEN Interp(v) ELSE fallback

IsDigits(d) == Len(d) > 0 /\ \A i \in 1..Len(d) : IsDigit(d[i])

\* String.prototype.split('/')
RECURSIVE SplitFrom(_, _, _)
SplitFrom(p, i, cur) ==
  IF i > Len(p) THEN <<cur>>
  ELSE IF p[i] = "/" THEN <<cur>> \o SplitFrom(p, i + 1, <<>>)
  ELSE SplitFrom(p, i + 1, Append(cur, p[i]))

Split(p) == SplitFrom(p, 1, <<>>)

\* ------------------------------------------------------------- Row Source
ErrText == <<"D", "1", "_", "E", "R", "R", "O", "R">>

ActTitleText(n) == <<"S", "t", "a", "g", "e", "-">> \o ToDec(n)

ActRow(n) == [id |-> 10 * n, act_no |-> n, title |-> Str(ActTitleText(n))]

\* the acts relation: acts 1..k, unique in id and act_no
ActTables == {{ActRow(n) : n \in 1..k} : k \in 0..MaxActNo}

\* one row of the beats relation; the text columns not listed are NULL
BeatRow(a, b, cur, del) ==
  [id |-> 8 * a + 4 * b + 2 * cur + del,
   act_id |-> 10 * a,
   beat_number |-> b,
   scene_number |-> IF cur = 1 THEN Num(b) ELSE Null,
   title |-> Str(IF cur = 1 THEN <<"n", "e", "w">> ELSE <<"o", "l", "d">>),
   description |-> IF del = 1 THEN Str(<<"c", "u", "t">>) ELSE Null,
   conflict |-> Null,
   emotion |-> Null,
   location |-> Null,
   time_of_day |-> Null,
   characters |-> Null,
   version |-> Num(1 + cur),
   is_current |-> cur,
   is_deleted |-> del,
   created_at |-> Null,
   updated_at |-> Null]

\* (is_current, is_deleted) of a row: a superseded version, the current
\* version, and a current version that was marked deleted
RowFlags == {<<0, 0>>, <<1, 0>>, <<1, 1>>}

BeatUniverse == {BeatRow(a, b, f[1], f[2]) :
                   a \in 1..MaxActNo, b \in 1..MaxBeatNo, f \in RowFlags}

\* UNIQUE(act_id, beat_number, is_current)
UniqueBeats(B) == \A r1, r2 \in B :
  (r1.act_id = r2.act_id /\ r1.beat_number = r2.beat_number
     /\ r1.is_current = r2.is_current) => r1 = r2

\* FOREIGN KEY (act_id) REFERENCES acts(id)
ForeignKeys(A, B) == \A r \in B : \E a \in A : a.id = r.act_id

\* an INTEGER column of the acts relation as the value the query returns;
\* a negative number in the relation stands for NULL
IntColumn(x) == IF x < 0 THEN Null ELSE Num(x)

\* b JOIN a ON b.act_id = a.id
JoinRow(b, a) ==
  [id |-> Num(b.id), act_id |-> Num(b.act_id), beat_number |-> Num(b.beat_number),
   scene_number |-> b.scene_number, title |-> b.title,
   description |-> b.description, conflict |-> b.conflict,
   emotion |-> b.emotion, location |-> b.location,
   time_of_day |-> b.time_of_day, characters |-> b.characters,
   version |-> b.version, created_at |-> b.created_at,
   updated_at |-> b.updated_at, act_no |-> IntColumn(a.act_no), act_title |-> a.title]

Joined(A, B) == {JoinRow(b, a) : <<b, a>> \in {x \in B \X A : x[1].act_id = x[2].id}}

\* ORDER BY b.beat_number, a.act_no
RowBeforeByBeat(r1, r2) ==
  \/ r1.beat_number.n < r2.beat_number.n
  \/ r1.beat_number = r2.beat_number /\ r1.act_no.n < r2.act_no.n
  \/ r1.act_no = r2.act_no /\ r1.beat_number = r2.beat_number /\ r1.id.n <= r2.id.n

\* ORDER BY a.act_no, b.beat_number (ties, which the constraints exclude, by id)
RowBefore(r1, r2) ==
  \/ r1.act_no.n < r2.act_no.n
  \/ r1.act_no = r2.act_no /\ r1.beat_number.n < r2.beat_number.n
  \/ r1.act_no = r2.act_no /\ r1.beat_number = r2.beat_number /\ r1.id.n <= r2.id.n

RECURSIVE OrderBy(_)
OrderBy(S) ==
  IF S = {} THEN <<>>
  ELSE LET m == CHOOSE r \in S : \A q \in S : RowBefore(r, q)
       IN <<m>> \o OrderBy(S \ {m})

\* WHERE clause of the report query and of the all-beats query
IsCurrentRow(b) == b.is_current = 1

\* SELECT ... FROM beats b JOIN acts a ... WHERE b.is_current = 1 ORDER BY a.act_no, b.beat_number
ReportQuery(A, B) == OrderBy(Joined(A, {b \in B : IsCurrentRow(b)}))

\* ... WHERE a.act_no = ? AND b.is_current = 1 ORDER BY b.beat_number
ActBeatsQuery(A, B, actNumber) ==
  OrderBy({r \in Joined(A, {b \in B : IsCurrentRow(b)}) : r.act_no = Num(actNumber)})

\* ... WHERE a.act_no = ? AND b.beat_number = ? AND b.is_current = 1, .first()
BeatQuery(A, B, actNumber, beatNumber) ==
  OrderBy({r \in Joined(A, {b \in B : IsCurrentRow(b)}) :
             r.act_no = Num(actNumber) /\ r.beat_number = Num(beatNumber)})

\* SELECT title FROM acts WHERE act_no = ?, .first()
ActTitleQuery(A, actNumber) ==
  LET S == {a \in A : a.act_no = actNumber}
  IN IF S = {} THEN <<>>
     ELSE <<[title |-> (CHOOSE a \in S : \A q \in S : a.id <= q.id).title]>>

\* ------------------------------------------------- Beat Report Aggregator
\* concatenation of the texts of a sequence (Array.prototype.join(''))
RECURSIVE Flatten(_)
Flatten(ss) == IF Len(ss) = 0 THEN <<>> ELSE Head(ss) \o Flatten(Tail(ss))

RECURSIVE SumSeq(_)
SumSeq(ns) == IF Len(ns) = 0 THEN 0 ELSE Head(ns) + SumSeq(Tail(ns))

\* the object pushed onto reportData[actKey].beats
BeatView(row) ==
  [beat_number |-> row.beat_number, scene_number |-> row.scene_number,
   title |-> row.title, description |-> row.description,
   conflict |-> row.conflict, emotion |-> row.emotion,
   location |-> row.location, time_of_day |-> row.time_of_day,
   characters |-> row.characters, version |-> row.version,
   created_at |-> row.created_at, updated_at |-> row.updated_at]

\* the key built from a property the row does not have
ActKeyUndefined(row) == <<"Act ", "undefined">>

\* const actKey = `Act ${beat.act_no}`
ActKey(row) == <<"Act ">> \o Interp(row.act_no)

\* GroupStep without totalBeats++ for the first beat of an act
GroupStepSkipsFirst(rd, row) ==
  LET key == ActKey(row)
      isNew == ~\E j \in 1..Len(rd.keys) : rd.keys[j] = key
      created == IF ~isNew THEN rd
                 ELSE [keys |-> Append(rd.keys, key),
                       vals |-> Append(rd.vals,
                                  [act_no |-> row.act_no, act_id |-> row.act_id,
                                   act_title |-> row.act_title,
                                   beats |-> <<>>, beat_count |-> 0]),
                       total |-> rd.total]
      j == CHOOSE k \in 1..Len(created.keys) : created.keys[k] = key
  IN [keys |-> created.keys,
      vals |-> [created.vals EXCEPT
                  ![j] = [@ EXCEPT !.beats = Append(@, BeatView(row)),
                                   !.beat_count = @ + 1]],
      total |-> IF isNew THEN created.total ELSE created.total + 1]

\* one iteration of the grouping loop; rd is the reportData object as the
\* sequence of its keys (in insertion order) and the sequence of its values
GroupStep(rd, row) ==
  LET key == ActKey(row)
      created == IF \E j \in 1..Len(rd.keys) : rd.keys[j] = key THEN rd
                 ELSE [keys |-> Append(rd.keys, key),
                       vals |-> Append(rd.vals,
                                  [act_no |-> row.act_no, act_id |-> row.act_id,
                                   act_title |-> row.act_title,
                                   beats |-> <<>>, beat_count |-> 0]),
                       total |-> rd.total]
      j == CHOOSE k \in 1..Len(created.keys) : created.keys[k] = key
  IN [keys |-> created.keys,
      vals |-> [created.vals EXCEPT
                  ![j] = [@ EXCEPT !.beats = Append(@, BeatView(row)),
                                   !.beat_count = @ + 1]],
      total |-> created.total + 1]

RECURSIVE GroupRows(_, _)
GroupRows(rd, rows) ==
  IF Len(rows) = 0 THEN rd ELSE GroupRows(GroupStep(rd, Head(rows)), Tail(rows))

\* new Date().toISOString() at the time of the request
NowISO ==
  <<"2", "0", "2", "6", "-", "0", "1", "-", "0", "2", "T",
    "2", "3", ":", "5", "9", ":", "5", "9", ".", "6", "7", "8", "Z">>

\* new Date().toISOString() a third of a second later, past midnight
LaterISO ==
  <<"2", "0", "2", "6", "-", "0", "1", "-", "0", "3", "T",
    "0", "0", ":", "0", "0", ":", "0", "0", ".", "0", "1", "2", "Z">>

\* the two readings of one request: time may or may not pass midnight
\* between generateBeatReport and the building of the response
ClockReadings == {<<NowISO, NowISO>>, <<NowISO, LaterISO>>, <<LaterISO, LaterISO>>}

\* toISOString().split('T')[0]
ISODate(iso) ==
  IF \E i \in 1..Len(iso) : iso[i] = "T"
  THEN SubSeq(iso, 1, (CHOOSE i \in 1..Len(iso) :
                         iso[i] = "T" /\ \A j \in 1..(i - 1) : iso[j] # "T") - 1)
  ELSE iso

\* the report object with total_acts taken from the beat counter
ReportOfCountsBeats(rd) ==
  [report_type |-> "beats_by_act",
   generated_at |-> Str(clock[1]),
   summary |-> [total_acts |-> rd.total,
                total_beats |-> rd.total,
                beats_per_act |-> [i \in 1..Len(rd.vals) |->
                                     [act_no |-> rd.vals[i].act_no,
                                      act_title |-> rd.vals[i].act_title,
                                      beat_count |-> rd.vals[i].beat_count]]],
   acts |-> rd.vals]

\* const acts = Object.values(reportData) and the report object around it
\* (the keys are not integer-like, so the values come in insertion order)
ReportOf(rd) ==
  [report_type |-> "beats_by_act",
   generated_at |-> Str(clock[1]),
   summary |-> [total_acts |-> Len(rd.vals),
                total_beats |-> rd.total,
                beats_per_act |-> [i \in 1..Len(rd.vals) |->
                                     [act_no |-> rd.vals[i].act_no,
                                      act_title |-> rd.vals[i].act_title,
                                      beat_count |-> rd.vals[i].beat_count]]],
   acts |-> rd.vals]

\* the report object built from the rows of the report query
BuildReport(rows) ==
  ReportOf(GroupRows([keys |-> <<>>, vals |-> <<>>, total |-> 0], rows))

\* ----------------------------------------------------------- HTML Projector
\* `${v ? `<p><strong>label</strong> ${v}</p>` : ''}`
FieldPair(label, v) ==
  IF Truthy(v) THEN <<"<p><strong>", label, "</strong> ">> \o Interp(v) \o <<"</p>">>
  ELSE <<>>

BeatEntryHTML(beat) ==
  <<"<div class=\"beat-entry\">", "<h2>Beat ">> \o Interp(beat.beat_number) \o <<" ">>
    \o (IF Truthy(beat.scene_number)
        THEN <<"(Scene ">> \o Interp(beat.scene_number) \o <<")">> ELSE <<>>)
    \o <<"</h2>", "<h3>">> \o OrElse(beat.title, <<"Untitled Beat">>) \o <<"</h3>">>
    \o <<"<p><strong>", "Description:", "</strong> ">>
    \o OrElse(beat.description, <<"No description available.">>) \o <<"</p>">>
    \o FieldPair("Conflict:", beat.conflict)
    \o FieldPair("Emotion:", beat.emotion)
    \o FieldPair("Location:", beat.location)
    \o FieldPair("Time:", beat.time_of_day)
    \o FieldPair("Characters:", beat.characters)
    \o <<"<hr>", "</div>">>

ActSectionHTML(act) ==
  <<"<div class=\"act-section\" id=\"act-">> \o Interp(act.act_no) \o <<"\">">>
    \o <<"<div class=\"act-title\">Act ">> \o Interp(act.act_no) \o <<"</div>">>
    \o <<"<div class=\"act-number\">Last updated: ", "<date>", "</div>">>
    \o <<"<div class=\"act-description\">">>
    \o Flatten([i \in 1..Len(act.beats) |-> BeatEntryHTML(act.beats[i])])
    \o <<"</div>", "</div>">>

SidebarHTML(report) ==
  <<"<nav class=\"sidebar\">",
    "<li class=\"nav-item\"><a href=\"#overview\" class=\"nav-link\">Overview</a></li>">>
    \o Flatten([i \in 1..Len(report.acts) |->
         <<"<li class=\"nav-item\"><a href=\"#act-">> \o Interp(report.acts[i].act_no)
           \o <<"\" class=\"nav-link\">Act ">> \o Interp(report.acts[i].act_no)
           \o <<"</a></li>">>])
    \o <<"</nav>">>

generateHTMLReport(report) ==
  <<"<!DOCTYPE html>", "<html lang=\"en\">", "<head>",
    "<title>Ally - Beat Sheets Report</title>", "<style>", "</style>", "</head>",
    "<body>", "<div class=\"container\">">>
    \o SidebarHTML(report)
    \o <<"<main class=\"main-content\">", "<a href=\"/\" class=\"back-link\">",
         "<div class=\"header\" id=\"overview\">", "As of ", "<date>",
         "<a href=\"/api/reports/beats/csv\" target=\"_blank\">Download CSV</a>",
         "</div>", "<div class=\"stats\">", "<div class=\"stat-value\">">>
    \o ToDec(report.summary.total_acts)
    \o <<"</div>", "<div class=\"stat-value\">">>
    \o ToDec(report.summary.total_beats)
    \o <<"</div>", "</div>">>
    \o Flatten([i \in 1..Len(report.acts) |-> ActSectionHTML(report.acts[i])])
    \o <<"</main>", "</div>", "</body>", "</html>">>

\* ---------------------------------------------------------- Print Projector
\* String.prototype.replace(pattern, by): the first element equal to pattern
ReplaceFirst(doc, pattern, by) ==
  IF \E i \in 1..Len(doc) : doc[i] = pattern
  THEN LET i == CHOOSE k \in 1..Len(doc) :
                  doc[k] = pattern /\ \A m \in 1..(k - 1) : doc[m] # pattern
       IN SubSeq(doc, 1, i - 1) \o by \o SubSeq(doc, i + 1, Len(doc))
  ELSE doc

\* .replace(/<div class="actions">[\s\S]*?<\/div>/, ''): from the first
\* opening of an actions block up to the first closing div after it
RemoveActions(doc) ==
  IF \E i \in 1..Len(doc) : doc[i] = "<div class=\"actions\">"
                             /\ \E j \in (i + 1)..Len(doc) : doc[j] = "</div>"
  THEN LET i == CHOOSE k \in 1..Len(doc) :
                  /\ doc[k] = "<div class=\"actions\">"
                  /\ \E j \in (k + 1)..Len(doc) : doc[j] = "</div>"
                  /\ \A m \in 1..(k - 1) : doc[m] # "<div class=\"actions\">"
           j == CHOOSE k \in (i + 1)..Len(doc) :
                  doc[k] = "</div>" /\ \A m \in (i + 1)..(k - 1) : doc[m] # "</div>"
       IN SubSeq(doc, 1, i - 1) \o SubSeq(doc, j + 1, Len(doc))
  ELSE doc

generatePDFOptimizedHTML(report) ==
  RemoveActions(ReplaceFirst(generateHTMLReport(report), "</head>",
                             <<"<style>", ".actions { display: none !important; }",
                               "</style>", "</head>">>))

\* ------------------------------------------------------------ CSV Projector
RECURSIVE DoubleQuotes(_)
DoubleQuotes(str) ==
  IF Len(str) = 0 THEN <<>>
  ELSE (IF Head(str) = "\"" THEN <<"\"", "\"">> ELSE <<Head(str)>>)
         \o DoubleQuotes(Tail(str))

escapeCSV(field) ==
  IF \E i \in 1..Len(field) : field[i] \in {",", "\"", "\n"}
  THEN <<"\"">> \o DoubleQuotes(field) \o <<"\"">>
  ELSE field

\* row.join(','): null and undefined elements join as the empty text
JoinElem(v) == IF v.t = "null" THEN <<>> ELSE Interp(v)

RECURSIVE JoinComma(_)
JoinComma(cells) ==
  IF Len(cells) = 0 THEN <<>>
  ELSE IF Len(cells) = 1 THEN Head(cells)
  ELSE Head(cells) \o <<",">> \o JoinComma(Tail(cells))

\* the names of the 14 columns
CSVColumns ==
  <<"Act Number", "Act Title", "Beat Number", "Scene Number", "Beat Title",
    "Description", "Conflict", "Emotion", "Location", "Time of Day", "Characters",
    "Version", "Created At", "Updated At">>

\* let csv = 'Act Number,Act Title,...,Updated At\n'
CSVHeader == JoinComma([c \in 1..Len(CSVColumns) |-> <<CSVColumns[c]>>]) \o <<"\n">>

CSVRow(act, beat) ==
  JoinComma(<<JoinElem(act.act_no),
              escapeCSV(OrElse(act.act_title, <<>>)),
              JoinElem(beat.beat_number),
              OrElse(beat.scene_number, <<>>),
              escapeCSV(OrElse(beat.title, <<>>)),
              escapeCSV(OrElse(beat.description, <<>>)),
              escapeCSV(OrElse(beat.conflict, <<>>)),
              escapeCSV(OrElse(beat.emotion, <<>>)),
              escapeCSV(OrElse(beat.location, <<>>)),
              escapeCSV(OrElse(beat.time_of_day, <<>>)),
              escapeCSV(OrElse(beat.characters, <<>>)),
              OrElse(beat.version, <<>>),
              OrElse(beat.created_at, <<>>),
              OrElse(beat.updated_at, <<>>)>>) \o <<"\n">>

\* generateCSVReport whose loop over the act groups skips the first group
generateCSVReportSkipsFirstAct(report) ==
  CSVHeader \o Flatten([i \in 1..(Len(report.acts) - 1) |->
                 Flatten([k \in 1..Len(report.acts[i + 1].beats) |->
                            CSVRow(report.acts[i + 1], report.acts[i + 1].beats[k])])])

generateCSVReport(report) ==
  CSVHeader \o Flatten([i \in 1..Len(report.acts) |->
                 Flatten([k \in 1..Len(report.acts[i].beats) |->
                            CSVRow(report.acts[i], report.acts[i].beats[k])])])

\* ----------------------------------------------------------- JSON Projector
\* A JavaScript object is [t |-> "obj", keys, vals], its own properties in
\* insertion order (a key is a text); an array is [t |-> "arr", items].
Obj(keys, vals) == [t |-> "obj", keys |-> keys, vals |-> vals]

Arr(items) == [t |-> "arr", items |-> items]

\* the object pushed onto reportData[actKey].beats
BeatObject(beat) ==
  Obj(<<<<"beat_number">>, <<"scene_number">>, <<"title">>, <<"description">>,
        <<"conflict">>, <<"emotion">>, <<"location">>, <<"time_of_day">>,
        <<"characters">>, <<"version">>, <<"created_at">>, <<"updated_at">>>>,
      <<beat.beat_number, beat.scene_number, beat.title, beat.description,
        beat.conflict, beat.emotion, beat.location, beat.time_of_day,
        beat.characters, beat.version, beat.created_at, beat.updated_at>>)

\* reportData[actKey]
ActObject(act) ==
  Obj(<<<<"act_no">>, <<"act_id">>, <<"act_title">>, <<"beats">>, <<"beat_count">>>>,
      <<act.act_no, act.act_id, act.act_title,
        Arr([k \in 1..Len(act.beats) |-> BeatObject(act.beats[k])]),
        Num(act.beat_count)>>)

\* the elements of summary.beats_per_act
BeatsPerActObject(entry) ==
  Obj(<<<<"act_no">>, <<"act_title">>, <<"beat_count">>>>,
      <<entry.act_no, entry.act_title, Num(entry.beat_count)>>)

SummaryObject(summary) ==
  Obj(<<<<"total_acts">>, <<"total_beats">>, <<"beats_per_act">>>>,
      <<Num(summary.total_acts), Num(summary.total_beats),
        Arr([i \in 1..Len(summary.beats_per_act) |->
               BeatsPerActObject(summary.beats_per_act[i])])>>)

\* the report object of generateBeatReport
ReportObject(report) ==
  Obj(<<<<"report_type">>, <<"generated_at">>, <<"summary">>, <<"acts">>>>,
      <<Str(<<report.report_type>>), report.generated_at,
        SummaryObject(report.summary),
        Arr([i \in 1..Len(report.acts) |-> ActObject(report.acts[i])])>>)

\* JSON.stringify of the characters of a string: the double quote, the
\* backslash and the newline are escaped (a markup tag that is one element
\* of a text passes as one element)
RECURSIVE EscapeJSON(_)
EscapeJSON(str) ==
  IF Len(str) = 0 THEN <<>>
  ELSE (IF Head(str) = "\"" THEN <<"\\", "\"">>
        ELSE IF Head(str) = "\\" THEN <<"\\", "\\">>
        ELSE IF Head(str) = "\n" THEN <<"\\", "n">>
        ELSE <<Head(str)>>) \o EscapeJSON(Tail(str))

\* the members of an object or the items of an array, one per line; a
\* property without a serialization (the empty text) is left out
RECURSIVE JoinLines(_)
JoinLines(texts) ==
  IF Len(texts) = 0 THEN <<>>
  ELSE IF Len(texts) = 1 THEN Head(texts)
  ELSE Head(texts) \o <<",", "\n">> \o JoinLines(Tail(texts))

IsSerialized(text) == text # <<>>

JoinMembers(texts) == JoinLines(SelectSeq(texts, IsSerialized))

\* JsonMember that leaves out a property whose value is null
JsonMemberSkipsNull(key, v, text) ==
  IF v.t = "null" THEN <<>> ELSE <<"\"">> \o key \o <<"\"", ":", " ">> \o text

\* "key": text, where text is the serialization of the value v
JsonMember(key, v, text) == <<"\"">> \o key \o <<"\"", ":", " ">> \o text

\* JSON.stringify(data, null, 2); the width of the indentation is left out
RECURSIVE JSONStringify(_)
JSONStringify(v) ==
  IF v.t = "null" THEN <<"null">>
  ELSE IF v.t = "num" THEN ToDec(v.n)
  ELSE IF v.t = "str" THEN <<"\"">> \o EscapeJSON(v.s) \o <<"\"">>
  ELSE IF v.t = "arr"
  THEN IF Len(v.items) = 0 THEN <<"[", "]">>
       ELSE <<"[", "\n">>
              \o JoinMembers([i \in 1..Len(v.items) |-> JSONStringify(v.items[i])])
              \o <<"\n", "]">>
  ELSE IF Len(v.keys) = 0 THEN <<"{", "}">>
  ELSE <<"{", "\n">>
         \o JoinMembers([i \in 1..Len(v.keys) |->
                           JsonMember(v.keys[i], v.vals[i], JSONStringify(v.vals[i]))])
         \o <<"\n", "}">>

\* the body jsonResponse(report, 200, corsHeaders) writes
ReportBody(report) == JSONStringify(ReportObject(report))

\* ------------------------------------------------------------ request paths
PathRoot == <<"/">>

PathAlly == <<"/", "a", "l", "l", "y">>

PathActAll == <<"/", "a", "c", "t", "/", "a", "l", "l">>

PathAllBeats == <<"/", "a", "l", "l", "y", "/", "b", "e", "a", "t", "s", "/", "a", "l", "l">>

PathDashboard == <<"/", "d", "a", "s", "h", "b", "o", "a", "r", "d">>

PathReport == <<"/", "r", "e", "p", "o", "r", "t">>

PathApi == <<"/", "a", "p", "i">>

PathApiSlash == <<"/", "a", "p", "i", "/">>

PathHealth == <<"/", "h", "e", "a", "l", "t", "h">>

PathReportsPrefix == <<"/", "a", "p", "i", "/", "r", "e", "p", "o", "r", "t", "s", "/">>

PathReportsJson == <<"/", "a", "p", "i", "/", "r", "e", "p", "o", "r", "t", "s", "/", "b", "e", "a", "t", "s">>

PathReportsCsv == <<"/", "a", "p", "i", "/", "r", "e", "p", "o", "r", "t", "s", "/", "b", "e", "a", "t", "s", "/", "c", "s", "v">>

PathReportsHtml == <<"/", "a", "p", "i", "/", "r", "e", "p", "o", "r", "t", "s", "/", "b", "e", "a", "t", "s", "/", "h", "t", "m", "l">>

PathReportsPdf == <<"/", "a", "p", "i", "/", "r", "e", "p", "o", "r", "t", "s", "/", "b", "e", "a", "t", "s", "/", "p", "d", "f">>

PathReportsOther == <<"/", "a", "p", "i", "/", "r", "e", "p", "o", "r", "t", "s", "/", "a", "c", "t", "s">>

PathUnknown == <<"/", "n", "o", "p", "e">>

PathActPrefix == <<"/", "a", "l", "l", "y", "/", "a", "c", "t", "/">>

PathBeatInfix == <<"/", "b", "e", "a", "t", "/">>

\* the segment that stands for an act or beat number in a request path
NumberSegments == {<<"1">>, <<"3">>, <<"2", "b">>}

ActPath(seg) == PathActPrefix \o seg

BeatPath(aseg, bseg) == PathActPrefix \o aseg \o PathBeatInfix \o bseg

Paths ==
  {PathRoot, PathAlly, PathActAll, PathAllBeats, PathDashboard, PathReport,
   PathApi, PathApiSlash, PathHealth, PathReportsJson, PathReportsCsv,
   PathReportsHtml, PathReportsPdf, PathReportsOther, PathUnknown}
    \cup {ActPath(seg) : seg \in NumberSegments}
    \cup {BeatPath(<<"1">>, <<"1">>), BeatPath(<<"1">>, <<"2">>),
          BeatPath(<<"3">>, <<"1">>), BeatPath(<<"2", "b">>, <<"1">>)}

Methods == {"GET", "POST", "OPTIONS"}

ApiKeyText == <<"k", "1">>

BearerText == <<"B", "e", "a", "r", "e", "r", " ">>

\* the credential headers of a request; Null is a header that is not sent
Headers(cf, key, auth) ==
  [h \in {"Cf-Access-Jwt-Assertion", "X-API-Key", "Authorization"} |->
     IF h = "Cf-Access-Jwt-Assertion" THEN cf ELSE IF h = "X-API-Key" THEN key ELSE auth]

HeaderSets ==
  {Headers(Null, Null, Null),
   Headers(Str(<<"j", "w", "t">>), Null, Null),
   Headers(Null, Str(ApiKeyText), Null)}

Requests == [method : Methods, path : Paths, headers : HeaderSets]

\* env.API_KEY: not configured, or the shared secret
Envs == {[API_KEY |-> Null], [API_KEY |-> Str(ApiKeyText)]}

\* ---------------------------------------------------------- authentication
\* request.headers.get(name)
HeaderGet(request, name) == request.headers[name]

StartsAt(str, i, pat) ==
  i + Len(pat) - 1 <= Len(str) /\ SubSeq(str, i, i + Len(pat) - 1) = pat

\* str.replace(pat, ''): the first occurrence of pat removed
RemoveFirst(str, pat) ==
  IF \E i \in 1..Len(str) : StartsAt(str, i, pat)
  THEN LET i == CHOOSE k \in 1..Len(str) :
                  StartsAt(str, k, pat) /\ \A m \in 1..(k - 1) : ~StartsAt(str, m, pat)
       IN SubSeq(str, 1, i - 1) \o SubSeq(str, i + Len(pat), Len(str))
  ELSE str

isAuthenticated(request, env) ==
  LET cfAccessJwt == HeaderGet(request, "Cf-Access-Jwt-Assertion")
      xApiKey == HeaderGet(request, "X-API-Key")
      authorization == HeaderGet(request, "Authorization")
      apiKeyHeader == IF Truthy(xApiKey) THEN xApiKey
                      ELSE IF authorization.t = "null" THEN Null
                      ELSE Str(RemoveFirst(authorization.s, BearerText))
  IN IF Truthy(cfAccessJwt) THEN TRUE
     ELSE IF Truthy(env.API_KEY) /\ Truthy(apiKeyHeader)
          THEN apiKeyHeader = env.API_KEY
     ELSE FALSE

\* ---------------------------------------------------------------- responses
CorsHeaders == TRUE

NoCors == FALSE

\* no report object was built (model is the report of no rows)
NoReport ==
  [built |-> FALSE,
   model |-> [report_type |-> "beats_by_act",
              generated_at |-> Null,
              summary |-> [total_acts |-> 0, total_beats |-> 0, beats_per_act |-> <<>>],
              acts |-> <<>>]]

\* a Response: status, Content-Type, whether the CORS headers are set, and
\* the body: a JSON object (kind "error", "report", "info"), a document
\* (kind "html", "csv") or nothing (kind "empty")
MkResponse(status, ctype, cors, kind, error, message, doc, data) ==
  [status |-> status, ctype |-> ctype, cors |-> cors, kind |-> kind,
   error |-> error, message |-> message, doc |-> doc, data |-> data,
   disposition |-> <<>>]

\* utils.js jsonResponse({error, message}, status, additionalHeaders)
jsonResponse(error, message, status, cors) ==
  MkResponse(status, "application/json", cors, "error", error, message, <<>>,
             NoReport.model)

\* jsonResponse(report, 200, corsHeaders)
jsonReportResponse(report, status, cors) ==
  MkResponse(status, "application/json", cors, "report", "", <<>>, <<>>, report)

\* jsonResponse of the static /api and /health objects
jsonInfoResponse(name, status, cors) ==
  MkResponse(status, "application/json", cors, "info", "", <<name>>, <<>>,
             NoReport.model)

\* new Response(text, {status, headers: {'Content-Type': ctype, ...corsHeaders}})
docResponse(doc, status, ctype, kind) ==
  MkResponse(status, ctype, CorsHeaders, kind, "", <<>>, doc, NoReport.model)

\* new Response(csv, {headers: {'Content-Type': 'text/csv',
\*   'Content-Disposition': `attachment; filename="beat-sheets-report-${date}.csv"`}})
csvResponse(doc, date) ==
  [docResponse(doc, 200, "text/csv", "csv") EXCEPT
     !.disposition = <<"attachment; filename=\"beat-sheets-report-">> \o date
                       \o <<".csv\"">>]

\* what running a handler produced: a response, or an exception that escaped
\* it (raised, with error.message), the queries it issued and the report
\* model it built
Returned(resp, queries, report) ==
  [raised |-> FALSE, errmsg |-> <<>>, resp |-> resp, queries |-> queries,
   report |-> report]

Raised(errmsg, queries, report) ==
  [raised |-> TRUE, errmsg |-> errmsg,
   resp |-> MkResponse(0, "", NoCors, "empty", "", <<>>, <<>>, NoReport.model),
   queries |-> queries, report |-> report]

\* one entry of the log of queries issued against the Row Source
QueryOk(name, rows) == [q |-> name, ok |-> TRUE, rows |-> rows]

QueryFailed(name) == [q |-> name, ok |-> FALSE, rows |-> <<>>]

\* ---------------------------------------------------------------- reports
\* the tail of generateBeatReport: the report in the requested format
ProjectReport(format, report) ==
  IF format = "csv" THEN generateCSVReport(report)
  ELSE IF format = "html" THEN generateHTMLReport(report)
  ELSE IF format = "pdf" THEN generatePDFOptimizedHTML(report)
  ELSE <<>>

\* what generateBeatReport returns for the rows of its query: doc is the
\* projected document, report the report object (the value for format json)
ReportResult(format, rows, report) ==
  [raised |-> FALSE, errmsg |-> <<>>,
   doc |-> ProjectReport(format, report),
   queries |-> <<QueryOk("report", rows)>>,
   report |-> [built |-> TRUE, model |-> report]]

\* the try block failing on a query that returned no row
ReportFromRowsFailsEmpty(format, rows) ==
  IF Len(rows) = 0
  THEN [raised |-> TRUE,
        errmsg |-> <<"Failed to generate report: ", "Cannot read properties of undefined">>,
        doc |-> <<>>, queries |-> <<QueryOk("report", rows)>>, report |-> NoReport]
  ELSE ReportResult(format, rows, BuildReport(rows))

\* the body of the try block of generateBeatReport after the query
ReportFromRows(format, rows) == ReportResult(format, rows, BuildReport(rows))

\* generateBeatReport issuing its query a second time after it raised
generateBeatReportRetrying(A, B, format, failAt) ==
  IF failAt = 1
  THEN [raised |-> TRUE,
        errmsg |-> <<"Failed to generate report: ">> \o ErrText,
        doc |-> <<>>, queries |-> <<QueryFailed("report"), QueryFailed("report")>>,
        report |-> NoReport]
  ELSE ReportFromRows(format, ReportQuery(A, B))

\* generateBeatReport(env, format); a failing query is rethrown as
\* Error(`Failed to generate report: ${error.message}`)
generateBeatReport(A, B, format, failAt) ==
  IF failAt = 1
  THEN [raised |-> TRUE,
        errmsg |-> <<"Failed to generate report: ">> \o ErrText,
        doc |-> <<>>, queries |-> <<QueryFailed("report")>>, report |-> NoReport]
  ELSE ReportFromRows(format, ReportQuery(A, B))

\* handleReportRequest whose catch block drops error.message
ReportResponseNoMessage(format, r) ==
  IF r.raised
  THEN Returned(jsonResponse("Report generation failed", <<>>, 500, CorsHeaders),
                r.queries, r.report)
  ELSE Returned(jsonReportResponse(r.report.model, 200, CorsHeaders),
                r.queries, r.report)

\* the try/catch of handleReportRequest around r = generateBeatReport(...)
ReportResponse(format, r) ==
  IF r.raised
  THEN Returned(jsonResponse("Report generation failed", r.errmsg, 500, CorsHeaders),
                r.queries, r.report)
  ELSE IF format = "csv"
  THEN Returned(csvResponse(r.doc, ISODate(clock[2])), r.queries, r.report)
  ELSE IF format = "html"
  THEN Returned(docResponse(r.doc, 200, "text/html", "html"), r.queries, r.report)
  ELSE IF format = "pdf"
  THEN Returned(docResponse(r.doc, 200, "text/html", "html"), r.queries, r.report)
  ELSE Returned(jsonReportResponse(r.report.model, 200, CorsHeaders),
                r.queries, r.report)

handleReportRequest(A, B, format, failAt) ==
  ReportResponse(format, generateBeatReport(A, B, format, failAt))

handleReportRouting(A, B, path, method, failAt) ==
  IF method # "GET"
  THEN Returned(jsonResponse("Method not allowed", <<>>, 405, CorsHeaders), <<>>, NoReport)
  ELSE IF path \in {PathReportsJson, PathReportsCsv, PathReportsHtml, PathReportsPdf}
  THEN handleReportRequest(A, B,
                           IF path = PathReportsJson THEN "json"
                           ELSE IF path = PathReportsCsv THEN "csv"
                           ELSE IF path = PathReportsHtml THEN "html" ELSE "pdf",
                           failAt)
  ELSE Returned(jsonResponse("Invalid report endpoint", <<>>, 400, CorsHeaders),
                <<>>, NoReport)

\* ----------------------------------------------------------- Page Renderers
\* `${n}` of a JavaScript number that may be negative
IntText(n) == IF n < 0 THEN <<"-">> \o ToDec(0 - n) ELSE ToDec(n)

\* `Act ${actNumber}`
ActFallbackTitle(actNumber) == <<"Act ">> \o ToDec(actNumber)

\* ui.js generateBeatPage(actNumber, beatNumber, beatData, actTitle)
generateBeatPage(actNumber, beatNumber, beatData, actTitle) ==
  <<"<!DOCTYPE html>", "<html lang=\"en\">", "<head>", "<title>ALLY - ">>
    \o actTitle \o <<" - Beat ">> \o ToDec(beatNumber)
    \o <<"</title>", "</head>", "<body>", "<a href=\"/ally/act/">> \o ToDec(actNumber)
    \o <<"\" class=\"back-link\">", "Back to ">> \o actTitle \o <<"</a>">>
    \o <<"<div class=\"header\">", "<h1>Beat ">> \o ToDec(beatNumber) \o <<" ">>
    \o (IF Truthy(beatData.sceneNumber)
        THEN <<"(Scene ">> \o Interp(beatData.sceneNumber) \o <<")">> ELSE <<>>)
    \o <<"</h1>", "<span>Last updated: ">> \o beatData.lastUpdated
    \o <<"</span>", "<span>Created: ">> \o beatData.createdDate \o <<"</span>", "</div>">>
    \o <<"<div class=\"content-section\">", "<h2>">> \o beatData.title
    \o <<"</h2>", "<p>">> \o beatData.description \o <<"</p>", "</div>">>
    \o <<"<h3>Conflict</h3>", "<p>">> \o beatData.conflict \o <<"</p>">>
    \o <<"<h3>Emotion</h3>", "<p>">> \o beatData.emotion \o <<"</p>">>
    \o <<"<h3>Location</h3>", "<p>">> \o beatData.location \o <<"</p>">>
    \o <<"<h3>Time of Day</h3>", "<p>">> \o beatData.timeOfDay \o <<"</p>">>
    \o <<"<h3>Characters</h3>", "<p>">> \o beatData.characters \o <<"</p>">>
    \o <<"<div class=\"navigation\">", "<a href=\"/ally/act/">> \o ToDec(actNumber)
    \o <<"/beat/">> \o IntText(beatNumber - 1) \o <<"\" class=\"nav-button\" ">>
    \o (IF beatNumber <= 1 THEN <<"style=\"visibility: hidden;\"">> ELSE <<>>)
    \o <<">", "Previous Beat", "</a>", "<a href=\"/ally/act/">> \o ToDec(actNumber)
    \o <<"\" class=\"nav-button\">">> \o actTitle \o <<" Overview", "</a>">>
    \o <<"<a href=\"/ally/act/">> \o ToDec(actNumber) \o <<"/beat/">>
    \o ToDec(beatNumber + 1) \o <<"\" class=\"nav-button\">", "Next Beat", "</a>",
         "</div>", "</body>", "</html>">>

\* the sentence of the description of a beat that was not found
NotFoundText(beatNumber, actTitle) ==
  <<"Beat ">> \o ToDec(beatNumber) \o <<" was not found in ">> \o actTitle
    \o <<". This beat may not exist yet or may have been removed.">>

\* beatData of a beat that was not found
MissingBeatData(beatNumber, actTitle) ==
  [title |-> <<"Beat ">> \o ToDec(beatNumber),
   description |-> NotFoundText(beatNumber, actTitle),
   conflict |-> <<"N/A">>, emotion |-> <<"N/A">>, location |-> <<"N/A">>,
   timeOfDay |-> <<"N/A">>, characters |-> <<"N/A">>,
   sceneNumber |-> Num(beatNumber),
   lastUpdated |-> <<"N/A">>, createdDate |-> <<"Not available">>]

\* new Date(v).toLocaleDateString()
LocaleDate(v) == <<"<date ">> \o Interp(v) \o <<">">>

\* beatData of the row the beat query returned
FoundBeatData(beat, beatNumber) ==
  [title |-> OrElse(beat.title, <<"Beat ">> \o ToDec(beatNumber)),
   description |-> OrElse(beat.description, <<"No description available.">>),
   conflict |-> OrElse(beat.conflict, <<"No conflict defined">>),
   emotion |-> OrElse(beat.emotion, <<"No emotion specified">>),
   location |-> OrElse(beat.location, <<"Location not specified">>),
   timeOfDay |-> OrElse(beat.time_of_day, <<"Time not specified">>),
   characters |-> OrElse(beat.characters, <<"Characters not specified">>),
   sceneNumber |-> IF Truthy(beat.scene_number) THEN beat.scene_number
                   ELSE Num(beatNumber),
   lastUpdated |-> IF Truthy(beat.updated_at) THEN LocaleDate(beat.updated_at)
                   ELSE <<"Unknown">>,
   createdDate |-> IF Truthy(beat.created_at) THEN LocaleDate(beat.created_at)
                   ELSE <<"Creation date unknown">>]

\* the sentence of the description of the error page
DbErrorText(errmsg) ==
  <<"Unable to load beat data due to a database error: ">> \o errmsg
    \o <<". Please try again later.">>

\* beatData of the error page of the catch block
ErrorBeatData(beatNumber, errmsg) ==
  [title |-> <<"Beat ">> \o ToDec(beatNumber),
   description |-> DbErrorText(errmsg),
   conflict |-> <<"Error">>, emotion |-> <<"Error">>, location |-> <<"Error">>,
   timeOfDay |-> <<"Error">>, characters |-> <<"Error">>,
   sceneNumber |-> Num(beatNumber),
   lastUpdated |-> <<"Error">>, createdDate |-> <<"Error">>]

\* the catch block answering with status 200
BeatErrorPageOk(actNumber, beatNumber, queries) ==
  Returned(docResponse(generateBeatPage(actNumber, beatNumber,
                                        ErrorBeatData(beatNumber, ErrText),
                                        ActFallbackTitle(actNumber)),
                       200, "text/html", "html"),
           queries, NoReport)

\* the catch block of the beat-detail route
BeatErrorPage(actNumber, beatNumber, queries) ==
  Returned(docResponse(generateBeatPage(actNumber, beatNumber,
                                        ErrorBeatData(beatNumber, ErrText),
                                        ActFallbackTitle(actNumber)),
                       500, "text/html", "html"),
           queries, NoReport)

\* the act title query's result ignored
MissingBeatActTitleFallback(actRows, actNumber) == ActFallbackTitle(actNumber)

\* actTitle = act ? act.title : `Act ${actNumber}`
MissingBeatActTitle(actRows, actNumber) ==
  IF Len(actRows) > 0 THEN Interp(actRows[1].title)
  ELSE ActFallbackTitle(actNumber)

\* the page of a beat that was not found, titled actTitle
MissingBeatPage(actNumber, beatNumber, actTitle, queries) ==
  Returned(docResponse(generateBeatPage(actNumber, beatNumber,
                                        MissingBeatData(beatNumber, actTitle),
                                        actTitle),
                       200, "text/html", "html"),
           queries, NoReport)

\* the branch `if (!beat)` once the act title query has returned actRows
MissingBeat(actNumber, beatNumber, found, actRows) ==
  MissingBeatPage(actNumber, beatNumber, MissingBeatActTitle(actRows, actNumber),
                  <<QueryOk("beat", found), QueryOk("actTitle", actRows)>>)

\* the branch for the row the beat query returned
FoundBeatPage(actNumber, beatNumber, found) ==
  Returned(docResponse(generateBeatPage(actNumber, beatNumber,
                                        FoundBeatData(found[1], beatNumber),
                                        OrElse(found[1].act_title,
                                               ActFallbackTitle(actNumber))),
                       200, "text/html", "html"),
           <<QueryOk("beat", found)>>, NoReport)

\* the try block after the beat query has returned
BeatPageFor(A, actNumber, beatNumber, found, failAt) ==
  IF Len(found) = 0
  THEN IF failAt = 2
       THEN BeatErrorPage(actNumber, beatNumber,
                          <<QueryOk("beat", found), QueryFailed("actTitle")>>)
       ELSE MissingBeat(actNumber, beatNumber, found, ActTitleQuery(A, actNumber))
  ELSE FoundBeatPage(actNumber, beatNumber, found)

\* the beat-detail route of handleRequest
handleBeatPage(A, B, actNumber, beatNumber, failAt) ==
  IF failAt = 1 THEN BeatErrorPage(actNumber, beatNumber, <<QueryFailed("beat")>>)
  ELSE BeatPageFor(A, actNumber, beatNumber,
                   BeatQuery(A, B, actNumber, beatNumber), failAt)

\* the card of one beat on the act listing page
ActBeatCard(actNumber, beat, actTitle) ==
  <<"<div class=\"beat-card\">", "<a href=\"/ally/act/">> \o ToDec(actNumber)
    \o <<"/beat/">> \o Interp(beat.beat_number) \o <<"\">", "<h3>Beat ">>
    \o Interp(beat.beat_number) \o <<" ">>
    \o (IF Truthy(beat.scene_number)
        THEN <<"(Scene ">> \o Interp(beat.scene_number) \o <<")">> ELSE <<>>)
    \o <<"</h3>", "<p>">>
    \o OrElse(beat.title, <<"Beat ">> \o Interp(beat.beat_number)
                            \o <<" content for ">> \o actTitle)
    \o <<"</p>", "</a>", "</div>">>

\* the document of the act listing page around its cards
ActBeatsDocument(actNumber, actTitle, beatCards) ==
  <<"<!DOCTYPE html>", "<html lang=\"en\">", "<head>", "<title>ALLY - ">>
    \o actTitle \o <<" Beats</title>", "</head>", "<body>", "<h1>ALLY</h1>", "ACT ">>
    \o ToDec(actNumber)
    \o <<" BEATS", "<a href=\"/ally\">", "<div class=\"beats-grid\">",
         "<a href=\"/ally/beats/all\">">>
    \o beatCards \o <<"</div>", "</body>", "</html>">>

NoBeatsCard(actTitle) ==
  <<"<div class=\"beat-card\">", "<h3>No Beats Found</h3>",
    "<p>There are currently no beats for ">> \o actTitle
    \o <<". Add some beats to see them here.</p>", "</div>">>

DbErrorCard(actTitle) ==
  <<"<div class=\"beat-card\">", "<h3>Database Error</h3>",
    "<p>Unable to load beats for ">> \o actTitle
    \o <<". Please try again later.</p>", "</div>">>

\* the response generateActBeatsPage builds after its try/catch
ActBeatsResponse(actNumber, actTitle, beatCards) ==
  docResponse(ActBeatsDocument(actNumber, actTitle, beatCards), 200, "text/html", "html")

\* the catch block of generateActBeatsPage: actTitle is still `Act ${actNumber}`
ActBeatsError(actNumber, queries) ==
  Returned(ActBeatsResponse(actNumber, ActFallbackTitle(actNumber),
                            DbErrorCard(ActFallbackTitle(actNumber))),
           queries, NoReport)

\* the page of an act without beats, titled actTitle
NoBeatsPage(actNumber, actTitle, queries) ==
  Returned(ActBeatsResponse(actNumber, actTitle, NoBeatsCard(actTitle)),
           queries, NoReport)

\* if (actInfo) actTitle = actInfo.title
ActInfoTitle(actInfo, actNumber) ==
  IF Len(actInfo) > 0 THEN Interp(actInfo[1].title) ELSE ActFallbackTitle(actNumber)

\* the branch for zero rows once the act title query has returned actInfo
NoBeats(actNumber, rows, actInfo) ==
  NoBeatsPage(actNumber, ActInfoTitle(actInfo, actNumber),
              <<QueryOk("actBeats", rows), QueryOk("actTitle", actInfo)>>)

\* the branch for the rows of the act: actTitle = beats.results[0].act_title
BeatsListed(actNumber, rows) ==
  Returned(ActBeatsResponse(actNumber, Interp(rows[1].act_title),
             Flatten([i \in 1..Len(rows) |->
                        ActBeatCard(actNumber, rows[i], Interp(rows[1].act_title))])),
           <<QueryOk("actBeats", rows)>>, NoReport)

\* the try block after the beats query has returned
ActBeatsFor(A, actNumber, rows, failAt) ==
  IF Len(rows) = 0
  THEN IF failAt = 2
       THEN ActBeatsError(actNumber, <<QueryOk("actBeats", rows), QueryFailed("actTitle")>>)
       ELSE NoBeats(actNumber, rows, ActTitleQuery(A, actNumber))
  ELSE BeatsListed(actNumber, rows)

generateActBeatsPage(A, B, actNumber, failAt) ==
  IF failAt = 1 THEN ActBeatsError(actNumber, <<QueryFailed("actBeats")>>)
  ELSE ActBeatsFor(A, actNumber, ActBeatsQuery(A, B, actNumber), failAt)

\* generateAllBeatsPage: allBeatCards is declared with let inside the try
\* block, so the assignment in the catch block and the read in the template
\* after the try/catch both refer to a name that is not in scope, and in
\* module code each raises a ReferenceError
generateAllBeatsPage(A, B, failAt) ==
  IF failAt = 1
  THEN Raised(<<"allBeatCards is not defined">>, <<QueryFailed("allBeats")>>, NoReport)
  ELSE Raised(<<"allBeatCards is not defined">>,
              <<QueryOk("allBeats", ReportQuery(A, B))>>, NoReport)

\* the documents without data
generateHomepage ==
  <<"<!DOCTYPE html>", "<title>MobiCycle Productions - Beat Sheets</title>",
    "<a href=\"/ally\" class=\"project-card main-project\">", "</html>">>

generateActsOverview ==
  docResponse(<<"<!DOCTYPE html>", "<title>ALLY - Beat Sheets Overview</title>",
                "<a href=\"/\">", "<a href=\"/ally/beats/all\">",
                "<a href=\"/ally/act/1\">", "<a href=\"/ally/act/2\">",
                "<a href=\"/ally/act/2b\">", "<a href=\"/ally/act/3\">",
                "<a href=\"https://sequences.mobicycle.productions/\">", "</html>">>,
              200, "text/html", "html")

\* ---------------------------------------------------------------- dispatcher
\* path.match(/^\/ally\/act\/\d+$/)
MatchesActPath(path) ==
  LET parts == Split(path)
  IN /\ Len(parts) = 4
     /\ parts[1] = <<>> /\ parts[2] = <<"a", "l", "l", "y">>
     /\ parts[3] = <<"a", "c", "t">> /\ IsDigits(parts[4])

\* path.match(/^\/ally\/act\/\d+\/beat\/\d+$/)
MatchesBeatPath(path) ==
  LET parts == Split(path)
  IN /\ Len(parts) = 6
     /\ parts[1] = <<>> /\ parts[2] = <<"a", "l", "l", "y">>
     /\ parts[3] = <<"a", "c", "t">> /\ IsDigits(parts[4])
     /\ parts[5] = <<"b", "e", "a", "t">> /\ IsDigits(parts[6])

\* path.startsWith('/api/reports/')
IsReportsPath(path) == StartsAt(path, 1, PathReportsPrefix)

\* the route handling of handleRequest, reached by an authenticated request
route(request, A, B, failAt) ==
  IF request.path = PathRoot \/ request.path = <<>>
  THEN Returned(docResponse(generateHomepage, 200, "text/html", "html"), <<>>, NoReport)
  ELSE IF request.path = PathAlly THEN Returned(generateActsOverview, <<>>, NoReport)
  ELSE IF request.path = PathActAll THEN handleReportRequest(A, B, "html", failAt)
  ELSE IF request.path = PathAllBeats THEN generateAllBeatsPage(A, B, failAt)
  ELSE IF MatchesActPath(request.path)
  THEN generateActBeatsPage(A, B, ParseInt(Split(request.path)[4]), failAt)
  ELSE IF MatchesBeatPath(request.path)
  THEN handleBeatPage(A, B, ParseInt(Split(request.path)[4]),
                      ParseInt(Split(request.path)[6]), failAt)
  ELSE IF request.path = PathDashboard \/ request.path = PathReport
  THEN handleReportRequest(A, B, "html", failAt)
  ELSE IF request.path = PathApi \/ request.path = PathApiSlash
  THEN Returned(jsonInfoResponse("BEAT-SHEETS UI Worker", 200, CorsHeaders),
                <<>>, NoReport)
  ELSE IF request.path = PathHealth
  THEN Returned(jsonInfoResponse("healthy", 200, CorsHeaders), <<>>, NoReport)
  ELSE IF IsReportsPath(request.path)
  THEN handleReportRouting(A, B, request.path, request.method, failAt)
  ELSE Returned(jsonResponse("Not found", <<>>, 404, CorsHeaders), <<>>, NoReport)

\* handleRequest with the authentication check left out
handleRequestNoGate(request, env, A, B, failAt) ==
  IF request.method = "OPTIONS"
  THEN Returned(MkResponse(200, "", CorsHeaders, "empty", "", <<>>, <<>>,
                           NoReport.model), <<>>, NoReport)
  ELSE route(request, A, B, failAt)

\* handleRequest: CORS preflight, authentication check, route handling
handleRequest(request, env, A, B, failAt) ==
  IF request.method = "OPTIONS"
  THEN Returned(MkResponse(200, "", CorsHeaders, "empty", "", <<>>, <<>>,
                           NoReport.model), <<>>, NoReport)
  ELSE IF ~isAuthenticated(request, env)
  THEN Returned(jsonResponse("Unauthorized", <<"Valid API key required">>, 401,
                             CorsHeaders), <<>>, NoReport)
  ELSE route(request, A, B, failAt)

\* fetch without its catch block: the exception escapes
CatchAllRethrows(r) == r

\* the catch block of fetch around r = handleRequest(...)
CatchAll(r) ==
  IF r.raised
  THEN Returned(jsonResponse("Internal server error", r.errmsg, 500, NoCors),
                r.queries, r.report)
  ELSE r

\* the fetch handler of the worker
fetch(request, env, A, B, failAt) == CatchAll(handleRequest(request, env, A, B, failAt))

\* ------------------------------------------------------------ state machine
\* acts, beats: the relations of the Row Source; env: the worker's bindings;
\* pc, request, response, queries, report: the request being served, its
\* response, the queries it issued and the report object it built;
\* limiter, now, calls: the Map of a RateLimiter, the time Date.now()
\* returns, and the calls made to the limiter so far with their results
VARIABLES acts, beats, env, pc, request, response, queries, report,
          limiter, now, calls

vars == <<acts, beats, env, pc, request, response, queries, report, clock,
          limiter, now, calls>>

NoRequest == [method |-> "", path |-> <<>>, headers |-> Headers(Null, Null, Null)]

NoResponse == MkResponse(0, "", NoCors, "empty", "", <<>>, <<>>, NoReport.model)

\* the sets of at most n rows of S
RECURSIVE RowSets(_, _)
RowSets(S, n) ==
  IF n = 0 THEN {{}}
  ELSE {P \cup more : P \in RowSets(S, n - 1), more \in {{}} \cup {{r} : r \in S}}

\* the contents the beats relation can have, with at most n rows
BeatTables(A, n) ==
  {B \in RowSets({r \in BeatUniverse : \E a \in A : a.id = r.act_id}, n) :
     UniqueBeats(B) /\ ForeignKeys(A, B)}

\* the worker constructs no RateLimiter
NoLimiter == [maxRequests |-> 0, windowMs |-> 0, requests |-> <<>>]

\* number of the query of a request that raises (0: none)
FailPoints == 0..2

Idle ==
  /\ pc = "idle"
  /\ request = NoRequest
  /\ response = NoResponse
  /\ queries = <<>>
  /\ report = NoReport
  /\ limiter = NoLimiter
  /\ now = 0
  /\ calls = <<>>

Init ==
  /\ acts \in ActTables
  /\ beats \in BeatTables(acts, MaxPageRows)
  /\ env \in Envs
  /\ clock = <<NowISO, NowISO>>
  /\ Idle

\* the request is answered with outcome r
Answer(req, r) ==
  /\ pc = "idle"
  /\ request' = req
  /\ response' = r.resp
  /\ queries' = r.queries
  /\ report' = r.report
  /\ pc' = "responded"
  /\ UNCHANGED <<acts, beats, env, clock, limiter, now, calls>>

\* the worker receives request req and answers it
Serve(req, failAt) == Answer(req, fetch(req, env, acts, beats, failAt))

Fetch == \E req \in Requests, failAt \in FailPoints : Serve(req, failAt)

\* Deliver with the report object kept for the next request
DeliverKeepsReport ==
  /\ pc = "responded"
  /\ pc' = "idle"
  /\ request' = NoRequest
  /\ response' = NoResponse
  /\ queries' = <<>>
  /\ UNCHANGED <<acts, beats, env, report, clock, limiter, now, calls>>

\* the response is delivered and the request's objects are discarded
Deliver ==
  /\ pc = "responded"
  /\ pc' = "idle"
  /\ request' = NoRequest
  /\ response' = NoResponse
  /\ queries' = <<>>
  /\ report' = NoReport
  /\ UNCHANGED <<acts, beats, env, clock, limiter, now, calls>>

Next == Fetch \/ Deliver

Spec == Init /\ [][Next]_vars

\* ---------------------------------------------- the report routes alone
\* authenticated GET requests of the routes that reach handleReportRequest
ReportPaths ==
  {PathActAll, PathDashboard, PathReport, PathReportsJson, PathReportsCsv,
   PathReportsHtml, PathReportsPdf}

ReportRequests ==
  {req \in Requests : /\ req.method = "GET"
                       /\ req.path \in ReportPaths
                       /\ req.headers = Headers(Str(<<"j", "w", "t">>), Null, Null)}

InitReports ==
  /\ acts \in ActTables
  /\ beats \in BeatTables(acts, MaxRows)
  /\ env \in Envs
  /\ clock \in ClockReadings
  /\ Idle

FetchReport == \E req \in ReportRequests, failAt \in FailPoints : Serve(req, failAt)

NextReports == FetchReport \/ Deliver

SpecReports == InitReports /\ [][NextReports]_vars

\* ------------------------------------- the report routes over column values
\* texts a TEXT column can hold: empty, with the CSV delimiters, with markup
\* (a markup tag is one element of a text, as in the templates)
TextValues ==
  {Str(<<>>),
   Str(<<"a", ",", "b">>),
   Str(<<"\"", "g", "o", "\"", "\n">>),
   Str(<<"<", "b", ">", "&">>),
   Str(<<"<div class=\"actions\">", "x">>)}

\* values of the columns scene_number and version
NumberValues == {Null, Num(0), Num(7)}

\* values of the columns created_at and updated_at
TimeValues ==
  {Null, Str(<<"2", "0", "2", "6", "-", "0", "1", "-", "0", "2">>),
   Str(<<"J", "a", "n", " ", "2", ",", " ", "2", "0", "2", "6">>)}

\* the values column f of the beats relation can hold (title is NOT NULL)
FieldValues(f) ==
  IF f = "title" THEN TextValues
  ELSE IF f \in {"scene_number", "version"} THEN NumberValues
  ELSE IF f \in {"created_at", "updated_at"} THEN TimeValues
  ELSE TextValues \cup {Null}

VariedFields ==
  {"title", "description", "conflict", "emotion", "location", "time_of_day",
   "characters", "scene_number", "version", "created_at", "updated_at"}

\* the k-th current beat: beats alternate between act 1 and act 2
SlotRow(k) == BeatRow(((k - 1) % 2) + 1, ((k - 1) \div 2) + 1, 1, 0)

\* the k-th beat with one column set to one of its values
VariedRows(k) ==
  UNION {{[SlotRow(k) EXCEPT ![f] = v] : v \in FieldValues(f)} : f \in VariedFields}

\* the first n beats, the k-th of them being row
TableOf(n, k, row) == {IF j = k THEN row ELSE SlotRow(j) : j \in 1..n}

FieldTables ==
  {{}} \cup UNION {UNION {{TableOf(n, k, row) : row \in VariedRows(k)} : k \in 1..n} :
                     n \in 1..MaxFieldRows}

\* acts 1 and 2; act 1 with a title that holds CSV delimiters; act 1 with a
\* NULL act_no
FieldActs ==
  {{ActRow(1), ActRow(2)},
   {[ActRow(1) EXCEPT !.title = Str(<<"A", ",", "\"", "1">>)], ActRow(2)},
   {[ActRow(1) EXCEPT !.act_no = 0 - 1], ActRow(2)}}

InitFields ==
  /\ acts \in FieldActs
  /\ beats \in FieldTables
  /\ env = [API_KEY |-> Null]
  /\ clock = <<NowISO, NowISO>>
  /\ Idle

SpecFields == InitFields /\ [][NextReports]_vars

\* ------------------------------------------------ the authentication gate
WrongKeyText == <<"k", "2">>

\* header values: not sent, sent empty, and sent with a value
AssertionValues == {Null, Str(<<>>), Str(<<"j", "w", "t">>)}

ApiKeyValues == {Null, Str(<<>>), Str(ApiKeyText), Str(WrongKeyText)}

\* Authorization: the key with and without the Bearer scheme, a wrong key,
\* and a value that has 'Bearer ' after its first character
AuthorizationValues ==
  {Null, Str(ApiKeyText), Str(BearerText \o ApiKeyText), Str(BearerText \o WrongKeyText),
   Str(<<"k">> \o BearerText \o <<"1">>)}

AuthRequests ==
  {[method |-> "GET", path |-> p, headers |-> Headers(cf, key, auth)] :
     p \in {PathHealth, PathUnknown}, cf \in AssertionValues, key \in ApiKeyValues,
     auth \in AuthorizationValues}

\* env.API_KEY: not configured, configured empty, or the shared secret
AuthEnvs == {[API_KEY |-> Null], [API_KEY |-> Str(<<>>)], [API_KEY |-> Str(ApiKeyText)]}

InitAuth ==
  /\ acts = {}
  /\ beats = {}
  /\ env \in AuthEnvs
  /\ clock = <<NowISO, NowISO>>
  /\ Idle

FetchAuth == \E req \in AuthRequests : Serve(req, 0)

NextAuth == FetchAuth \/ Deliver

SpecAuth == InitAuth /\ [][NextAuth]_vars

\* ------------------------------------------------------------ RateLimiter
\* a RateLimiter is the record of its fields: maxRequests, windowMs and
\* requests, the Map from the identifiers seen to their lists of timestamps
Identifiers == {"u1", "u2"}

\* new RateLimiter(maxRequests, windowMs)
RateLimiter(maxRequests, windowMs) ==
  [maxRequests |-> maxRequests, windowMs |-> windowMs, requests |-> <<>>]

\* userRequests.filter(timestamp => timestamp > windowStart)
ValidRequests(userRequests, windowStart) ==
  SelectSeq(userRequests, LAMBDA timestamp : timestamp > windowStart)

\* this.requests.get(identifier), after the set of [] for a new identifier
UserRequests(L, identifier) ==
  IF identifier \in DOMAIN L.requests THEN L.requests[identifier] ELSE <<>>

\* this.requests.set(identifier, list)
SetRequests(L, identifier, list) ==
  [L EXCEPT !.requests = (identifier :> list) @@ L.requests]

\* isAllowed that accepts without recording the call
isAllowedNoPush(L, identifier, t) ==
  [limiter |-> SetRequests(L, identifier,
                           ValidRequests(UserRequests(L, identifier), t - L.windowMs)),
   result |-> Len(ValidRequests(UserRequests(L, identifier), t - L.windowMs))
                < L.maxRequests]

\* isAllowed(identifier) when Date.now() returns t: the limiter afterwards
\* and the value returned
isAllowed(L, identifier, t) ==
  IF Len(ValidRequests(UserRequests(L, identifier), t - L.windowMs)) >= L.maxRequests
  THEN [limiter |-> SetRequests(L, identifier,
                                ValidRequests(UserRequests(L, identifier), t - L.windowMs)),
        result |-> FALSE]
  ELSE [limiter |-> SetRequests(L, identifier,
                                Append(ValidRequests(UserRequests(L, identifier),
                                                     t - L.windowMs), t)),
        result |-> TRUE]

\* Math.max(0, n)
Max0(n) == IF n < 0 THEN 0 ELSE n

\* getRemainingRequests that counts the stored timestamps without the filter
getRemainingRequestsUnfiltered(L, identifier, t) ==
  IF identifier \notin DOMAIN L.requests THEN L.maxRequests
  ELSE Max0(L.maxRequests - Len(L.requests[identifier]))

\* getRemainingRequests(identifier) when Date.now() returns t
getRemainingRequests(L, identifier, t) ==
  IF identifier \notin DOMAIN L.requests THEN L.maxRequests
  ELSE Max0(L.maxRequests - Len(ValidRequests(L.requests[identifier], t - L.windowMs)))

\* a call with its result: ok is the value isAllowed returned, left the value
\* getRemainingRequests returned
Call(op, identifier, t, ok, left) ==
  [op |-> op, id |-> identifier, at |-> t, ok |-> ok, left |-> left]

InitLimiter ==
  /\ acts = {}
  /\ beats = {}
  /\ env = [API_KEY |-> Null]
  /\ clock = <<NowISO, NowISO>>
  /\ pc = "idle"
  /\ request = NoRequest
  /\ response = NoResponse
  /\ queries = <<>>
  /\ report = NoReport
  /\ limiter \in {RateLimiter(m, w) : m \in 1..MaxLimit, w \in 1..MaxWindow}
  /\ now = 0
  /\ calls = <<>>

\* a caller asks limiter.isAllowed(identifier)
Allow(identifier) ==
  /\ Len(calls) < MaxCalls
  /\ limiter' = isAllowed(limiter, identifier, now).limiter
  /\ calls' = Append(calls, Call("isAllowed", identifier, now,
                                 isAllowed(limiter, identifier, now).result, 0))
  /\ UNCHANGED <<acts, beats, env, pc, request, response, queries, report, clock, now>>

\* a caller asks limiter.getRemainingRequests(identifier)
Remaining(identifier) ==
  /\ Len(calls) < MaxCalls
  /\ calls' = Append(calls, Call("getRemainingRequests", identifier, now, FALSE,
                                 getRemainingRequests(limiter, identifier, now)))
  /\ UNCHANGED <<acts, beats, env, pc, request, response, queries, report, clock,
                 limiter, now>>

\* time passes: Date.now() never goes back
Tick ==
  /\ now < MaxTime
  /\ now' = now + 1
  /\ UNCHANGED <<acts, beats, env, pc, request, response, queries, report, clock,
                 limiter, calls>>

AllowSome == \E identifier \in Identifiers : Allow(identifier)

RemainingSome == \E identifier \in Identifiers : Remaining(identifier)

NextLimiter == AllowSome \/ RemainingSome \/ Tick

SpecLimiter == InitLimiter /\ [][NextLimiter]_vars

\* ------------------------------------------------------------------ claims
\* sub occurs in doc
Contains(doc, sub) ==
  \E i \in 1..(Len(doc) - Len(sub) + 1) : SubSeq(doc, i, i + Len(sub) - 1) = sub

\* the response is a complete HTML document served as text/html
IsHtmlPage(resp) ==
  /\ resp.ctype = "text/html"
  /\ resp.kind = "html"
  /\ Len(resp.doc) > 1
  /\ resp.doc[1] = "<!DOCTYPE html>"
  /\ resp.doc[Len(resp.doc)] = "</html>"

\* the request that was answered passed the authentication check
Authenticated == pc = "responded" /\ request.method # "OPTIONS"
                   /\ isAuthenticated(request, env)

\* some query of the request raised
SomeQueryFailed == \E k \in 1..Len(queries) : ~queries[k].ok

\* the relations hold a current beat of act actNo numbered beatNo that is not
\* marked deleted
LiveBeat(actNo, beatNo) ==
  \E r \in beats, a \in acts :
    /\ a.id = r.act_id /\ a.act_no = actNo /\ r.beat_number = beatNo
    /\ r.is_current = 1 /\ r.is_deleted = 0

\* act and beat number of the beat-detail or act-listing path that was requested
RequestedAct == ParseInt(Split(request.path)[4])

RequestedBeat == ParseInt(Split(request.path)[6])

\* C1: whenever generateBeatReport has built a report, summary.total_beats
\* equals the sum of the groups' beat_count and the number of rows the report
\* query returned, and every group's beat_count is the length of its beats.
C1_TotalsMatchRows ==
  report.built =>
    /\ report.model.summary.total_beats = Len(queries[1].rows)
    /\ report.model.summary.total_beats =
         SumSeq([i \in 1..Len(report.model.acts) |-> report.model.acts[i].beat_count])
    /\ \A i \in 1..Len(report.model.acts) :
         report.model.acts[i].beat_count = Len(report.model.acts[i].beats)

\* a report of two rows that fall into two act groups
C1_Witness ==
  /\ report.built
  /\ Len(queries[1].rows) = 2
  /\ Len(report.model.acts) = 2

\* C2: in every report built from the rows the Row Source returns in
\* (act_no, beat_number) order, the act groups are in strictly ascending act_no
\* order and the beats of each group in strictly ascending beat_number order.
C2_StrictlyAscending ==
  report.built =>
    /\ \A i, j \in 1..Len(report.model.acts) :
         i < j => report.model.acts[i].act_no.n < report.model.acts[j].act_no.n
    /\ \A g \in 1..Len(report.model.acts) :
         \A i, j \in 1..Len(report.model.acts[g].beats) :
           i < j => report.model.acts[g].beats[i].beat_number.n
                      < report.model.acts[g].beats[j].beat_number.n

\* a report with two act groups, the later one holding the lower beat number
C2_Witness ==
  /\ report.built
  /\ Len(report.model.acts) = 2
  /\ report.model.acts[2].beats[1].beat_number.n
       < report.model.acts[1].beats[1].beat_number.n

\* C3: no beat row that is non-current or marked deleted appears in the report
\* or in the output of a page renderer: every beat of a report that was built,
\* and every beat row a page renderer was given and rendered, is a current
\* beat that is not marked deleted.
C3_OnlyLiveBeatsShown ==
  /\ report.built =>
       \A g \in 1..Len(report.model.acts) :
         \A i \in 1..Len(report.model.acts[g].beats) :
           LiveBeat(report.model.acts[g].act_no.n,
                    report.model.acts[g].beats[i].beat_number.n)
  /\ \A k \in 1..Len(queries) :
       (queries[k].ok /\ queries[k].q \in {"actBeats", "beat"}
          /\ response.status = 200) =>
         \A i \in 1..Len(queries[k].rows) :
           LiveBeat(queries[k].rows[i].act_no.n, queries[k].rows[i].beat_number.n)

\* C4: a request that is not an OPTIONS request and carries no accepted
\* credential is answered with status 401, and no query is issued against the
\* Row Source and no report is built for it.
C4_UnauthenticatedNeverQueries ==
  (pc = "responded" /\ request.method # "OPTIONS" /\ ~isAuthenticated(request, env)) =>
    /\ response.status = 401
    /\ queries = <<>>
    /\ ~report.built

\* a POST of the JSON report route with a key while no API_KEY is configured
C4_Witness ==
  /\ pc = "responded"
  /\ request.method = "POST"
  /\ request.path = PathReportsJson
  /\ request.headers["X-API-Key"] = Str(ApiKeyText)
  /\ env.API_KEY = Null
  /\ response.status = 401

\* the HTML report route was requested and its query raised
HtmlReportFailed ==
  /\ Authenticated
  /\ \/ request.path \in {PathDashboard, PathReport, PathActAll}
     \/ request.path = PathReportsHtml /\ request.method = "GET"
  /\ queries = <<QueryFailed("report")>>

\* C5: when the report query raises on the HTML report path, the response has
\* status 500 and its body is a complete HTML document served as text/html.
C5_HtmlReportErrorIsHtml ==
  HtmlReportFailed => response.status = 500 /\ IsHtmlPage(response)

\* the JSON report route was requested and its query raised
JsonReportFailed ==
  /\ Authenticated
  /\ request.path = PathReportsJson /\ request.method = "GET"
  /\ SomeQueryFailed

\* C6: when the report query raises on the JSON report path, the response has
\* status 500 and a JSON body whose message carries the underlying error
\* message, and the query was issued once.
C6_JsonReportError ==
  JsonReportFailed =>
    /\ response.status = 500
    /\ response.ctype = "application/json"
    /\ response.kind = "error"
    /\ Contains(response.message, ErrText)
    /\ Len(queries) = 1

C6_Witness == JsonReportFailed /\ response.status = 500

\* the all-beats page was requested and its query succeeded
AllBeatsServed ==
  /\ Authenticated
  /\ request.method = "GET"
  /\ request.path = PathAllBeats
  /\ ~SomeQueryFailed

\* C7: an authenticated GET of /ally/beats/all whose query succeeds is answered
\* with status 200 and one HTML document.
C7_AllBeatsPageOk ==
  AllBeatsServed => response.status = 200 /\ IsHtmlPage(response)

\* the act listing page was requested
ActPageServed == Authenticated /\ MatchesActPath(request.path)

\* C8: on the act listing page a failing query yields status 500 and an HTML
\* page, while an act without beats yields status 200.
C8_ActPageStatusTellsFailure ==
  ActPageServed =>
    /\ IsHtmlPage(response)
    /\ SomeQueryFailed => response.status = 500
    /\ ~SomeQueryFailed => response.status = 200

\* the beat-detail page was requested, both queries succeeded and the beat
\* query returned no row
BeatNotFound ==
  /\ Authenticated
  /\ MatchesBeatPath(request.path)
  /\ Len(queries) = 2
  /\ ~SomeQueryFailed
  /\ Len(queries[1].rows) = 0

\* the title the page of a missing beat is to show: the stored title of the
\* act numbered actNo if there is one, `Act actNo` otherwise
TitleOfAct(actNo) ==
  IF \E a \in acts : a.act_no = actNo
  THEN (CHOOSE a \in acts : a.act_no = actNo).title.s
  ELSE <<"Act ">> \o ToDec(actNo)

\* C9: a beat-detail request that matches no current beat row is answered with
\* status 200 and an HTML page that states that the beat was not found and
\* shows the act's stored title if the act exists, `Act {actNo}` otherwise.
C9_MissingBeatPage ==
  BeatNotFound =>
    /\ response.status = 200
    /\ IsHtmlPage(response)
    /\ Contains(response.doc,
                <<"Beat ">> \o ToDec(RequestedBeat) \o <<" was not found in ">>
                  \o TitleOfAct(RequestedAct))
    /\ Contains(response.doc, <<"Back to ">> \o TitleOfAct(RequestedAct) \o <<"</a>">>)

\* a missing beat of an act that exists
C9_Witness ==
  /\ BeatNotFound
  /\ \E a \in acts : a.act_no = RequestedAct
  /\ response.status = 200

\* the beat-detail page was requested and one of its queries raised
BeatPageFailed ==
  /\ Authenticated
  /\ MatchesBeatPath(request.path)
  /\ SomeQueryFailed

\* C10: when the beat query or the act title query of the beat-detail page
\* raises, the response has status 500 and is an HTML beat page carrying the
\* error message.
C10_BeatPageError ==
  BeatPageFailed =>
    /\ response.status = 500
    /\ IsHtmlPage(response)
    /\ Contains(response.doc, ErrText)

\* the act title query raised after the beat query had returned no row
C10_Witness ==
  /\ BeatPageFailed
  /\ Len(queries) = 2
  /\ queries[1].ok
  /\ ~queries[2].ok

\* the request reached handleReportRequest
ReportRequested ==
  /\ Authenticated
  /\ \/ request.path \in {PathActAll, PathDashboard, PathReport}
     \/ /\ request.method = "GET"
        /\ request.path \in {PathReportsJson, PathReportsCsv, PathReportsHtml,
                              PathReportsPdf}

\* the request reached the beat-detail route or the act listing page
EntityPageRequested ==
  Authenticated /\ (MatchesBeatPath(request.path) \/ MatchesActPath(request.path))

\* C11: a report request issues exactly one query; a beat-detail or act
\* listing request issues one or two, the second only after the first returned
\* no row; and no query is issued after one that failed.
C11_BoundedQueries ==
  /\ ReportRequested => Len(queries) = 1
  /\ EntityPageRequested =>
       /\ Len(queries) \in {1, 2}
       /\ Len(queries) = 2 => queries[1].ok /\ Len(queries[1].rows) = 0
  /\ \A k \in 1..(Len(queries) - 1) : queries[k].ok

\* a beat-detail request whose second query was issued, and a report request
\* whose only query failed
C11_Witness ==
  \/ EntityPageRequested /\ Len(queries) = 2
  \/ ReportRequested /\ SomeQueryFailed

\* C12: no request changes the secret or the Row Source, and once a response
\* is delivered nothing of the request is left: the worker is back in the
\* state it had before the request, so that the next response depends on the
\* next request, the secret and the Row Source only.
C12_Stateless ==
  [][UNCHANGED <<acts, beats, env>> /\ (pc' = "idle" => Idle')]_vars

\* a request that built a report object is about to be delivered
C12_Witness == pc = "responded" /\ report.built /\ Len(queries) = 1

\* the HTML report was built and served by generateHTMLReport
HtmlReportServed ==
  /\ Authenticated
  /\ request.path \in {PathActAll, PathDashboard, PathReport, PathReportsHtml}
  /\ request.method = "GET"
  /\ report.built

\* the beats of a report in report order, each with its act group
FlatBeats(model) ==
  Flatten([i \in 1..Len(model.acts) |->
             [k \in 1..Len(model.acts[i].beats) |->
                [act |-> model.acts[i], beat |-> model.acts[i].beats[k]]]])

\* the characters with a special meaning in HTML
HtmlSpecials == {"<", ">", "&", "\""}

\* C13: in the HTML report no character of a beat field that has a special
\* meaning in markup (<, >, &, a quote) appears unescaped, and no field value
\* brings a markup tag of its own.  (The template's own markup is made of
\* longer elements, so an element that is one such character, or a tag that
\* is an element of a field value, comes from a field value.)
C13_FieldsEscaped ==
  HtmlReportServed =>
    /\ \A i \in 1..Len(response.doc) : response.doc[i] \notin HtmlSpecials
    /\ \A e \in 1..Len(FlatBeats(report.model)) :
         \A f \in {"title", "description", "conflict", "emotion", "location",
                    "time_of_day", "characters"} :
           \A j \in 1..Len(FlatBeats(report.model)[e].beat[f].s) :
             FlatBeats(report.model)[e].beat[f].s[j] = "<div class=\"actions\">"
               => ~\E i \in 1..Len(response.doc) :
                     response.doc[i] = "<div class=\"actions\">"

\* number of elements of doc equal to e
CountOf(doc, e) == Cardinality({i \in 1..Len(doc) : doc[i] = e})

\* number of beats of the report whose field f is not null
CountPresent(model, f) ==
  Cardinality({e \in 1..Len(FlatBeats(model)) : FlatBeats(model)[e].beat[f].t # "null"})

\* the label of the paragraph of each optional field
FieldLabels ==
  [conflict |-> "Conflict:", emotion |-> "Emotion:", location |-> "Location:",
   time_of_day |-> "Time:", characters |-> "Characters:"]

\* C14: in the HTML report the label/value paragraph of each of conflict,
\* emotion, location, time_of_day and characters is present for exactly the
\* beats whose value of that field is not null (an empty string included).
C14_OmittedIffNull ==
  HtmlReportServed =>
    \A f \in DOMAIN FieldLabels :
      CountOf(response.doc, FieldLabels[f]) = CountPresent(report.model, f)

\* C15: the HTML report never holds the text "null" or "undefined" produced
\* from a missing value, whichever column of a row is null.
C15_NoNullText ==
  HtmlReportServed =>
    \A i \in 1..Len(response.doc) : response.doc[i] \notin {"null", "undefined"}

\* the CSV report was built and served
CsvReportServed ==
  /\ Authenticated
  /\ request.path = PathReportsCsv
  /\ request.method = "GET"
  /\ report.built

\* parsing of CSV text by the standard rules: fields are separated by commas
\* and records by newlines; a field that starts with a double quote runs to
\* the closing double quote, a doubled double quote inside it standing for
\* one.  A comma or newline separates exactly when an even number of double
\* quotes comes before it.
QuotesBefore(txt, i) == Cardinality({j \in 1..(i - 1) : txt[j] = "\""})

\* the positions in lo..hi of the separator c outside quoted fields
Separators(txt, lo, hi, c) ==
  {i \in lo..hi : txt[i] = c /\ QuotesBefore(txt, i) % 2 = 0}

\* the n-th smallest position of S
Nth(S, n) == CHOOSE p \in S : Cardinality({q \in S : q < p}) = n - 1

\* the content of a quoted field: doubled double quotes stand for one
RECURSIVE Undouble(_)
Undouble(str) ==
  IF Len(str) = 0 THEN <<>>
  ELSE IF Len(str) >= 2 /\ str[1] = "\"" /\ str[2] = "\""
  THEN <<"\"">> \o Undouble(SubSeq(str, 3, Len(str)))
  ELSE <<Head(str)>> \o Undouble(Tail(str))

Unquote(fld) ==
  IF Len(fld) >= 2 /\ fld[1] = "\"" /\ fld[Len(fld)] = "\""
  THEN Undouble(SubSeq(fld, 2, Len(fld) - 1))
  ELSE fld

\* the pieces of txt[lo..hi] between the positions of S
Pieces(txt, lo, hi, S) ==
  [r \in 1..(Cardinality(S) + 1) |->
     [lo |-> IF r = 1 THEN lo ELSE Nth(S, r - 1) + 1,
      hi |-> IF r = Cardinality(S) + 1 THEN hi ELSE Nth(S, r) - 1]]

\* the fields of the record txt[lo..hi]
CsvFields(txt, lo, hi) ==
  [c \in 1..(Cardinality(Separators(txt, lo, hi, ",")) + 1) |->
     Unquote(SubSeq(txt, Pieces(txt, lo, hi, Separators(txt, lo, hi, ","))[c].lo,
                         Pieces(txt, lo, hi, Separators(txt, lo, hi, ","))[c].hi))]

\* the records of txt, each ended by a newline outside quoted fields
ParseCSV(txt) ==
  [r \in 1..Cardinality(Separators(txt, 1, Len(txt), "\n")) |->
     CsvFields(txt, Pieces(txt, 1, Len(txt), Separators(txt, 1, Len(txt), "\n"))[r].lo,
                    Pieces(txt, 1, Len(txt), Separators(txt, 1, Len(txt), "\n"))[r].hi)]

\* the value is a string that holds a comma, a double quote or a newline
HasDelimiter(v) == v.t = "str" /\ \E i \in 1..Len(v.s) : v.s[i] \in {",", "\"", "\n"}

\* the columns that hold text and the value each is written from
CsvTextCells(e) ==
  <<[col |-> 2, v |-> e.act.act_title], [col |-> 5, v |-> e.beat.title],
    [col |-> 6, v |-> e.beat.description], [col |-> 7, v |-> e.beat.conflict],
    [col |-> 8, v |-> e.beat.emotion], [col |-> 9, v |-> e.beat.location],
    [col |-> 10, v |-> e.beat.time_of_day], [col |-> 11, v |-> e.beat.characters],
    [col |-> 13, v |-> e.beat.created_at], [col |-> 14, v |-> e.beat.updated_at]>>

\* record rec has 14 fields and holds the text of cell in the cell's column
RoundTrips(rec, cell) == Len(rec) = 14 /\ rec[cell.col] = cell.v.s

\* the cells of the k-th beat that hold a delimiter come back from record k + 1
RowRoundTrips(recs, k, cells) ==
  \A c \in 1..Len(cells) :
    HasDelimiter(cells[c].v) => Len(recs) > k /\ RoundTrips(recs[k + 1], cells[c])

\* C16: for every beat of a CSV report and every text or timestamp field whose
\* value holds a comma, a double quote or a newline, parsing the CSV gives the
\* beat's record 14 fields, the field's column holding the original string.
C16_CsvRoundTrip ==
  CsvReportServed =>
    \A k \in 1..Len(FlatBeats(report.model)) :
      RowRoundTrips(ParseCSV(response.doc), k, CsvTextCells(FlatBeats(report.model)[k]))

\* the decimal text of a number column that is not null, the empty text of null
NumberCell(v) == IF v.t = "num" THEN ToDec(v.n) ELSE <<>>

\* record k + 1 is the record of the k-th beat of the report
RecordOfBeat(rec, e) ==
  /\ rec[1] = NumberCell(e.act.act_no)
  /\ rec[3] = NumberCell(e.beat.beat_number)
  /\ rec[5] = OrElse(e.beat.title, <<>>)

\* the records are the header and one record per beat, in report order
HeaderThenBeats(recs, model) ==
  /\ Len(recs) = 1 + model.summary.total_beats
  /\ Len(FlatBeats(model)) = model.summary.total_beats
  /\ recs[1] = [c \in 1..14 |-> <<CSVColumns[c]>>]
  /\ \A k \in 1..Len(FlatBeats(model)) : RecordOfBeat(recs[k + 1], FlatBeats(model)[k])

NumberCells(rec, e) ==
  /\ rec[1] = NumberCell(e.act.act_no)
  /\ rec[3] = NumberCell(e.beat.beat_number)
  /\ rec[4] = NumberCell(e.beat.scene_number)
  /\ rec[12] = NumberCell(e.beat.version)

\* C18: in the CSV report the columns act number, beat number, scene number
\* and version hold the decimal text of a number that is not null, the value
\* 0 included, and the empty text only for null.
C18_CsvNumbers ==
  CsvReportServed =>
    \A k \in 1..Len(FlatBeats(report.model)) :
      /\ Len(ParseCSV(response.doc)) > k
      /\ NumberCells(ParseCSV(response.doc)[k + 1], FlatBeats(report.model)[k])

\* the JSON report was built and served
JsonReportServed ==
  /\ Authenticated
  /\ request.path = PathReportsJson
  /\ request.method = "GET"
  /\ report.built
  /\ response.kind = "report"

\* JSON.parse.  Whitespace between tokens is skipped; a value starts at i and
\* the result says where the text after it starts.
WhiteSpace == {" ", "\n"}

SkipWs(txt, i) ==
  IF \E j \in i..Len(txt) : txt[j] \notin WhiteSpace
  THEN CHOOSE j \in i..Len(txt) :
         txt[j] \notin WhiteSpace /\ \A m \in i..(j - 1) : txt[m] \in WhiteSpace
  ELSE Len(txt) + 1

\* number of backslashes that come right before position j
BackslashesBefore(txt, j) ==
  Cardinality({m \in 1..(j - 1) : \A q \in m..(j - 1) : txt[q] = "\\"})

\* the double quote that closes the string opened at i
ClosingQuote(txt, i) ==
  CHOOSE j \in (i + 1)..Len(txt) :
    /\ txt[j] = "\"" /\ BackslashesBefore(txt, j) % 2 = 0
    /\ \A m \in (i + 1)..(j - 1) : ~(txt[m] = "\"" /\ BackslashesBefore(txt, m) % 2 = 0)

RECURSIVE UnescapeJSON(_)
UnescapeJSON(str) ==
  IF Len(str) = 0 THEN <<>>
  ELSE IF Head(str) = "\\" /\ Len(str) >= 2
  THEN <<IF str[2] = "n" THEN "\n" ELSE str[2]>> \o UnescapeJSON(SubSeq(str, 3, Len(str)))
  ELSE <<Head(str)>> \o UnescapeJSON(Tail(str))

\* the end of the run of digits that starts at i
DigitsEnd(txt, i) ==
  CHOOSE j \in i..Len(txt) :
    /\ \A m \in i..j : IsDigit(txt[m])
    /\ (j = Len(txt) \/ ~IsDigit(txt[j + 1]))

Parsed(v, next) == [v |-> v, next |-> next]

ParsedString(txt, i, close) ==
  Parsed(Str(UnescapeJSON(SubSeq(txt, i + 1, close - 1))), close + 1)

RECURSIVE ParseValue(_, _)
RECURSIVE ParseItems(_, _, _)
RECURSIVE ParseMembers(_, _, _, _)

\* acc are the items read so far, r the item just read, k the token after it
MoreItems(txt, acc, r, k) ==
  IF txt[k] = "," THEN ParseItems(txt, SkipWs(txt, k + 1), Append(acc, r.v))
  ELSE Parsed(Arr(Append(acc, r.v)), k + 1)

AfterItem(txt, acc, r) == MoreItems(txt, acc, r, SkipWs(txt, r.next))

ParseItems(txt, i, acc) ==
  IF txt[i] = "]" THEN Parsed(Arr(acc), i + 1)
  ELSE AfterItem(txt, acc, ParseValue(txt, i))

MoreMembers(txt, keys, vals, key, r, k) ==
  IF txt[k] = ","
  THEN ParseMembers(txt, SkipWs(txt, k + 1), Append(keys, key.v.s), Append(vals, r.v))
  ELSE Parsed(Obj(Append(keys, key.v.s), Append(vals, r.v)), k + 1)

AfterMember(txt, keys, vals, key, r) ==
  MoreMembers(txt, keys, vals, key, r, SkipWs(txt, r.next))

\* key is the member's name; the colon follows it
AfterKey(txt, keys, vals, key) ==
  AfterMember(txt, keys, vals, key,
              ParseValue(txt, SkipWs(txt, SkipWs(txt, key.next) + 1)))

ParseMembers(txt, i, keys, vals) ==
  IF txt[i] = "}" THEN Parsed(Obj(keys, vals), i + 1)
  ELSE AfterKey(txt, keys, vals, ParsedString(txt, i, ClosingQuote(txt, i)))

ParseValue(txt, i) ==
  IF txt[i] = "null" THEN Parsed(Null, i + 1)
  ELSE IF txt[i] = "\"" THEN ParsedString(txt, i, ClosingQuote(txt, i))
  ELSE IF txt[i] = "[" THEN ParseItems(txt, SkipWs(txt, i + 1), <<>>)
  ELSE IF txt[i] = "{" THEN ParseMembers(txt, SkipWs(txt, i + 1), <<>>, <<>>)
  ELSE Parsed(Num(ParseInt(SubSeq(txt, i, DigitsEnd(txt, i)))), DigitsEnd(txt, i) + 1)

JSONParse(txt) == ParseValue(txt, SkipWs(txt, 1)).v

\* C19: parsing the body of the JSON report response gives back the report
\* object generateBeatReport built: report_type, generated_at, summary and
\* acts, every beat with all its fields, the null ones included, under their
\* names.
C19_JsonRoundTrip ==
  JsonReportServed => JSONParse(ReportBody(response.data)) = ReportObject(report.model)

\* a JSON report of a beat with a null field and a field holding a double quote
C19_Witness ==
  /\ JsonReportServed
  /\ \E k \in 1..Len(FlatBeats(report.model)) :
       /\ FlatBeats(report.model)[k].beat.description.t = "null"
       /\ \E j \in 1..Len(FlatBeats(report.model)[k].beat.title.s) :
            FlatBeats(report.model)[k].beat.title.s[j] = "\""

\* the print version of the report was built and served
PrintReportServed ==
  /\ Authenticated
  /\ request.path = PathReportsPdf
  /\ request.method = "GET"
  /\ report.built

\* the part of a report document that holds the act sections with their beat
\* entries: from the opening of the main column to its end
MainColumn(doc) ==
  IF /\ \E i \in 1..Len(doc) : doc[i] = "<main class=\"main-content\">"
     /\ \E j \in 1..Len(doc) : doc[j] = "</main>"
  THEN SubSeq(doc,
              CHOOSE i \in 1..Len(doc) :
                /\ doc[i] = "<main class=\"main-content\">"
                /\ \A m \in 1..(i - 1) : doc[m] # "<main class=\"main-content\">",
              CHOOSE j \in 1..Len(doc) :
                /\ doc[j] = "</main>"
                /\ \A m \in (j + 1)..Len(doc) : doc[m] # "</main>")
  ELSE <<>>

\* C20: the print version of a report holds every act section and every beat
\* entry of the HTML report of the same report object, unchanged and in the
\* same order, whatever text the beat fields hold: the two documents agree
\* on their main column.
C20_PrintKeepsContent ==
  PrintReportServed =>
    MainColumn(response.doc) = MainColumn(generateHTMLReport(report.model))

ReportBuilt == ReportRequested /\ report.built /\ Len(queries) = 1 /\ queries[1].ok

\* C23: summary.beats_per_act has one entry per act group, in the order of
\* report.acts, the i-th entry holding the act_no, act_title and beat_count
\* of the i-th group; summary.total_acts is the number of groups.
C23_BeatsPerActMatchesActs ==
  ReportBuilt =>
    /\ Len(report.model.summary.beats_per_act) = Len(report.model.acts)
    /\ report.model.summary.total_acts = Len(report.model.acts)
    /\ \A i \in 1..Len(report.model.acts) :
         /\ report.model.summary.beats_per_act[i].act_no = report.model.acts[i].act_no
         /\ report.model.summary.beats_per_act[i].act_title = report.model.acts[i].act_title
         /\ report.model.summary.beats_per_act[i].beat_count = report.model.acts[i].beat_count

\* a report of two groups, and so of two entries
C23_Witness ==
  /\ ReportBuilt
  /\ Len(report.model.acts) = 2
  /\ report.model.summary.beats_per_act[1].act_no
       # report.model.summary.beats_per_act[2].act_no

\* the k-th beat of the report is the k-th row, in the group of the row's act
BeatOfRow(e, row) ==
  /\ e.beat = BeatView(row)
  /\ e.act.act_no = row.act_no
  /\ e.act.act_id = row.act_id
  /\ e.act.act_title = row.act_title

\* C24: the beats of the report, group after group, are the rows of the report
\* query one for one; each beat lies in the group that has its row's act_no,
\* act_id and act_title, and no two groups have the same act_no.
C24_GroupingIsExact ==
  ReportBuilt =>
    /\ Len(FlatBeats(report.model)) = Len(queries[1].rows)
    /\ \A k \in 1..Len(queries[1].rows) :
         BeatOfRow(FlatBeats(report.model)[k], queries[1].rows[k])
    /\ \A i, j \in 1..Len(report.model.acts) :
         report.model.acts[i].act_no = report.model.acts[j].act_no => i = j

\* a report of rows of two acts
C24_Witness ==
  /\ ReportBuilt
  /\ Len(queries[1].rows) >= 2
  /\ queries[1].rows[1].act_no # queries[1].rows[2].act_no

\* the report query of a report request returned no row
NoRowsReported ==
  ReportRequested /\ Len(queries) = 1 /\ queries[1].ok /\ Len(queries[1].rows) = 0

\* C27: when the report query returns no row, the report has no acts, both
\* totals 0 and an empty beats_per_act, and the JSON, HTML, CSV and print
\* report requests are answered with status 200.
C27_EmptyReport ==
  NoRowsReported =>
    /\ report.built
    /\ report.model.acts = <<>>
    /\ report.model.summary.total_acts = 0
    /\ report.model.summary.total_beats = 0
    /\ report.model.summary.beats_per_act = <<>>
    /\ response.status = 200

\* the CSV report of a relation that holds only a superseded beat
C27_Witness ==
  /\ NoRowsReported
  /\ request.path = PathReportsCsv
  /\ beats # {}

\* the statuses the worker answers with
Statuses == {200, 400, 401, 404, 405, 500}

\* the response the catch block of fetch builds
IsInternalError(resp) ==
  /\ resp.status = 500
  /\ resp.ctype = "application/json"
  /\ resp.kind = "error"
  /\ resp.error = "Internal server error"

\* C28: every request is answered with a response, whatever the Row Source
\* does; the exception raised inside handleRequest (by the all-beats page)
\* is answered with status 500 and the JSON error 'Internal server error'.
C28_FetchAlwaysResponds ==
  pc = "responded" =>
    /\ response.status \in Statuses
    /\ response.kind # "empty" \/ request.method = "OPTIONS"
    /\ (Authenticated /\ request.path = PathAllBeats) => IsInternalError(response)

\* the all-beats page was requested and its query raised
C28_Witness ==
  /\ Authenticated
  /\ request.path = PathAllBeats
  /\ SomeQueryFailed
  /\ IsInternalError(response)

\* the same-site links of the acts overview page and of the act listing page
\* that lead to a path of the requests explored
LinkedPaths ==
  {PathRoot, PathAlly, PathAllBeats, ActPath(<<"1">>), ActPath(<<"3">>),
   ActPath(<<"2", "b">>)}

\* C29: an authenticated GET of a link of the acts overview page or of the
\* act listing page is never answered with the 404 'Not found' response.
C29_LinksAreServed ==
  (Authenticated /\ request.method = "GET" /\ request.path \in LinkedPaths)
    => response.status # 404

\* C22: a CSV report is answered with status 200, content type text/csv and
\* a content-disposition whose filename is beat-sheets-report-<date>.csv,
\* <date> being the date part of the report's generated_at, whatever time
\* passes between building the report and building the response.
C22_CsvFilenameDate ==
  CsvReportServed =>
    /\ response.status = 200
    /\ response.ctype = "text/csv"
    /\ response.disposition =
         <<"attachment; filename=\"beat-sheets-report-">>
           \o ISODate(report.model.generated_at.s) \o <<".csv\"">>

\* str without its prefix pat, when it has that prefix
StripPrefix(str, pat) ==
  IF StartsAt(str, 1, pat) THEN SubSeq(str, Len(pat) + 1, Len(str)) ELSE str

\* the request presents a key and it is exactly key: the X-API-Key header
\* when it is non-empty, otherwise the Authorization header without its
\* prefix 'Bearer '
PresentsKey(req, key) ==
  IF Truthy(req.headers["X-API-Key"])
  THEN req.headers["X-API-Key"].s = key
  ELSE /\ req.headers["Authorization"].t = "str"
       /\ StripPrefix(req.headers["Authorization"].s, BearerText) = key

\* C25: a request passes the authentication gate exactly when it carries a
\* non-empty Cf-Access-Jwt-Assertion header, or env.API_KEY is configured
\* and the key it presents is exactly env.API_KEY.
C25_AcceptsExactly ==
  pc = "responded" =>
    (response.status # 401 <=>
       \/ Truthy(request.headers["Cf-Access-Jwt-Assertion"])
       \/ Truthy(env.API_KEY) /\ PresentsKey(request, env.API_KEY.s))

\* the calls among the first n of the log that isAllowed accepted for
\* identifier with a timestamp in (lo, hi]
AcceptedIn(n, identifier, lo, hi) ==
  {k \in 1..n : /\ calls[k].op = "isAllowed"
                /\ calls[k].id = identifier
                /\ calls[k].ok
                /\ calls[k].at > lo
                /\ calls[k].at <= hi}

\* C26: for every identifier and every time t, at most maxRequests accepted
\* calls have a timestamp in (t - windowMs, t]; a call of isAllowed returns
\* false exactly when maxRequests accepted calls of the identifier already
\* lie in the window that ends at the call (rejected calls are not counted).
C26_SlidingWindowBound ==
  /\ \A identifier \in Identifiers, t \in 0..now :
       Cardinality(AcceptedIn(Len(calls), identifier, t - limiter.windowMs, t))
         <= limiter.maxRequests
  /\ \A k \in 1..Len(calls) :
       calls[k].op = "isAllowed" =>
         (~calls[k].ok <=>
            Cardinality(AcceptedIn(k - 1, calls[k].id,
                                   calls[k].at - limiter.windowMs, calls[k].at))
              = limiter.maxRequests)

\* a call was rejected and, the window having slid, a later one accepted
C26_Witness ==
  \E j, k \in 1..Len(calls) :
    /\ j < k
    /\ calls[j].op = "isAllowed" /\ calls[k].op = "isAllowed"
    /\ calls[j].id = calls[k].id
    /\ ~calls[j].ok /\ calls[k].ok

\* the step is a call of getRemainingRequests
RemainingStep ==
  /\ Len(calls') = Len(calls) + 1
  /\ calls'[Len(calls')].op = "getRemainingRequests"

\* C30: a call of getRemainingRequests returns maxRequests minus the number
\* of accepted calls of the identifier still inside the window, never less
\* than 0; the value is positive exactly when isAllowed for that identifier
\* at that time would return true; the call leaves the stored history as it
\* was; and no call changes what getRemainingRequests returns for another
\* identifier.
C30_RemainingAgrees ==
  [][/\ RemainingStep =>
        /\ limiter' = limiter
        /\ calls'[Len(calls')].left =
             Max0(limiter.maxRequests
                  - Cardinality(AcceptedIn(Len(calls), calls'[Len(calls')].id,
                                           now - limiter.windowMs, now)))
        /\ calls'[Len(calls')].left > 0
             <=> isAllowed(limiter', calls'[Len(calls')].id, now').result
     /\ Len(calls') = Len(calls) + 1 =>
        \A other \in Identifiers \ {calls'[Len(calls')].id} :
          getRemainingRequests(limiter', other, now')
            = getRemainingRequests(limiter, other, now)]_vars

\* getRemainingRequests returned 0 for an identifier and a positive number
\* for the other one
C30_Witness ==
  \E j, k \in 1..Len(calls) :
    /\ calls[j].op = "getRemainingRequests" /\ calls[k].op = "getRemainingRequests"
    /\ calls[j].left = 0 /\ calls[k].left > 0
    /\ calls[j].id # calls[k].id

====
